---- MODULE Spec2Model ----
(***************************************************************************)
(* Model of the xltable backend: account store, signed tokens, the         *)
(* authenticate middleware and the request handlers of authController and  *)
(* scheduleController.  A request is handled in steps; every store         *)
(* round-trip (an await in the handler) is one atomic step, the code       *)
(* between two awaits belongs to the step of the later one.                *)
(***************************************************************************)
EXTENDS Integers, Sequences, FiniteSets, TLC

VARIABLES now, users, schedules, posts, comments, nextId, issued, req, resp

vars == <<now, users, schedules, posts, comments, nextId, issued, req, resp>>

\* the board collections and the ObjectId source
board == <<posts, comments, nextId>>

(* ---------------------------------------------------------------- bounds *)
MaxTime == 2
MaxUsers == 3
MaxTokens == 2
MaxSheets == 2
MaxIds == 2
MaxViews == 2

(* ------------------------------------------------------ program constants *)
\* expiresIn: "1d", scaled to clock ticks
TokenTTL == 2
\* password.length < 8
MinPasswordLen == 8

JWT_SECRET == "secret"
ADMIN_USER_ID == "root"
ADMIN_PASSWORD == "rootpass1"
ADMIN_EMAIL == "a@x.kr"

(* ------------------------------------------------------------ input sets *)
Slots == {"r1", "r2"}
\* the slot of the specifications whose requests do not overlap
OneSlot == {"r1"}
UserIds == {"root", "kim"}
Passwords == {"rootpass1", "kimpass22"}
Emails == {"a@x.kr"}
ReqUserIds == UserIds \cup {""}
ReqPasswords == Passwords \cup {"", "short"}
ReqEmails == Emails \cup {""}
ReqRoles == {"admin", "user", "superadmin", ""}

Idle == [pc |-> "idle"]

(* --------------------------------------------------------------- bcrypt *)
\* bcrypt.hash(password, 10)
Hash(password) == <<"bcrypt", password>>

\* bcrypt.compare(password, hash)
Compare(password, hash) == hash = Hash(password)

(* ------------------------------------------------------------------ jwt *)
Sign(userId, role, exp, key) == <<userId, role, exp, key>>

\* jwt.sign({ userId, role }, JWT_SECRET, { expiresIn: "1d" })
generateToken(userId, role, t) ==
  [fmt |-> "jwt", userId |-> userId, role |-> role, exp |-> t + TokenTTL,
   sig |-> Sign(userId, role, t + TokenTTL, JWT_SECRET)]

NullDecoded == [ok |-> FALSE, userId |-> "", role |-> ""]

\* verifyToken as it would be with a lookup of the token's account
verifyToken_ChecksAccount(token, t) ==
  IF /\ token.fmt = "jwt"
     /\ token.sig = Sign(token.userId, token.role, token.exp, JWT_SECRET)
     /\ t < token.exp
     /\ \E i \in 1..Len(users) : users[i].userId = token.userId
  THEN [ok |-> TRUE, userId |-> token.userId, role |-> token.role]
  ELSE NullDecoded

\* jwt.verify(token, JWT_SECRET): null on a malformed token, a signature
\* mismatch or an expired token
verifyToken(token, t) ==
  IF /\ token.fmt = "jwt"
     /\ token.sig = Sign(token.userId, token.role, token.exp, JWT_SECRET)
     /\ t < token.exp
  THEN [ok |-> TRUE, userId |-> token.userId, role |-> token.role]
  ELSE NullDecoded

GarbageToken ==
  [fmt |-> "garbage", userId |-> "", role |-> "", exp |-> 0,
   sig |-> Sign("", "", 0, "")]

NoHeader == [scheme |-> "", token |-> GarbageToken]

Bearer(token) == [scheme |-> "Bearer", token |-> token]

\* a token whose payload was edited after signing
Tamper(token) == [token EXCEPT !.role = "superadmin"]

\* a token signed with another key
Forge(token) ==
  [token EXCEPT !.sig = Sign(token.userId, token.role, token.exp, "guess")]

\* Authorization headers a client can send
Headers ==
  {NoHeader, [scheme |-> "Basic", token |-> GarbageToken], Bearer(GarbageToken)}
    \cup {Bearer(t) : t \in issued}
    \cup {Bearer(Tamper(t)) : t \in issued}
    \cup {Bearer(Forge(t)) : t \in issued}

\* the header carries a token that login issued and that has not expired
Genuine(hdr, t) ==
  /\ hdr.scheme = "Bearer"
  /\ hdr.token \in issued
  /\ t < hdr.token.exp

\* authenticate as it would be with jwt.decode in place of jwt.verify
authenticate_DecodesOnly(hdr, t) ==
  IF hdr.scheme # "Bearer" \/ hdr.token.fmt # "jwt"
  THEN NullDecoded
  ELSE [ok |-> TRUE, userId |-> hdr.token.userId, role |-> hdr.token.role]

\* authenticate: the decoded identity, or not ok (the middleware answers 401)
authenticate(hdr, t) ==
  IF hdr.scheme # "Bearer" THEN NullDecoded ELSE verifyToken(hdr.token, t)

(* ---------------------------------------------------------- users store *)
\* usersCollection.findOne({ userId }): index of the first match, 0 if none
findUser(us, userId) ==
  IF \E i \in 1..Len(us) : us[i].userId = userId
  THEN CHOOSE i \in 1..Len(us) :
         /\ us[i].userId = userId
         /\ \A j \in 1..(i - 1) : us[j].userId # userId
  ELSE 0

RemoveAt(seq, i) == SubSeq(seq, 1, i - 1) \o SubSeq(seq, i + 1, Len(seq))

\* usersCollection.updateOne({ userId }, { $set: { password } })
setPassword(us, userId, hash) ==
  LET i == findUser(us, userId)
  IN IF i = 0 THEN us ELSE [us EXCEPT ![i].password = hash]

\* usersCollection.deleteOne({ userId })
deleteUser(us, userId) ==
  LET i == findUser(us, userId)
  IN IF i = 0 THEN us ELSE RemoveAt(us, i)

\* createAdminAccount at server start
createAdminAccount(us) ==
  IF findUser(us, ADMIN_USER_ID) # 0 THEN us
  ELSE Append(us, [userId |-> ADMIN_USER_ID, password |-> Hash(ADMIN_PASSWORD),
                   email |-> ADMIN_EMAIL, role |-> "admin",
                   registeredTeachers |-> <<>>])

(* ------------------------------------------------------------ responses *)
Anonymous == [userId |-> "", role |-> ""]

\* res.status(status).json(...): the last response sent
Reply(op, status, cred, actor, arg, token) ==
  [op |-> op, status |-> status, cred |-> cred, userId |-> actor.userId,
   role |-> actor.role, arg |-> arg, token |-> token]

\* a response without a token in its body
Plain(op, status, cred, actor, arg) == Reply(op, status, cred, actor, arg, GarbageToken)

\* the handler returns at once
Answer(r) == resp' = r /\ UNCHANGED req

\* the handler suspends at an await
Await(s, rec) == req' = [req EXCEPT ![s] = rec] /\ UNCHANGED resp

\* the handler resumes, finishes and answers
Finish(s, r) == req' = [req EXCEPT ![s] = Idle] /\ resp' = r

(* ----------------------------------------------------------------- Init *)
Init ==
  /\ now = 0
  /\ users = createAdminAccount(<<>>)
  /\ schedules = <<>>
  /\ posts = <<>>
  /\ comments = <<>>
  /\ nextId = 1
  /\ issued = {}
  /\ req = [s \in Slots |-> Idle]
  /\ resp = Plain("start", 0, FALSE, Anonymous, "")

\* the clock advances
Tick ==
  /\ now < MaxTime
  /\ now' = now + 1
  /\ UNCHANGED <<users, schedules, board, issued, req, resp>>

(* ------------------------------------------------------------- register *)
validRole(role) == IF role \in {"admin", "user"} THEN role ELSE "user"

\* register without the duplicate check
Register_NoDuplicateCheck(s, userId, password, email, role) ==
  /\ req[s].pc = "idle"
  /\ UNCHANGED <<now, users, schedules, board, issued>>
  /\ LET body == [userId |-> userId, password |-> password, email |-> email]
     IN
     IF userId = "" \/ password = "" \/ email = ""
     THEN Answer(Plain("register", 400, FALSE, Anonymous, body))
     ELSE IF Len(password) < MinPasswordLen
     THEN Answer(Plain("register", 400, FALSE, Anonymous, body))
     ELSE Await(s, [pc |-> "register_insert", op |-> "register", arg |-> body,
                    newUser |-> [userId |-> userId, password |-> Hash(password),
                                 email |-> email, role |-> validRole(role),
                                 registeredTeachers |-> <<>>]])

Register(s, userId, password, email, role) ==
  /\ req[s].pc = "idle"
  /\ UNCHANGED <<now, users, schedules, board, issued>>
  /\ LET body == [userId |-> userId, password |-> password, email |-> email]
     IN
     IF userId = "" \/ password = "" \/ email = ""
     THEN Answer(Plain("register", 400, FALSE, Anonymous, body))
     ELSE IF Len(password) < MinPasswordLen
     THEN Answer(Plain("register", 400, FALSE, Anonymous, body))
     ELSE IF findUser(users, userId) # 0
     THEN Answer(Plain("register", 409, FALSE, Anonymous, body))
     ELSE Await(s, [pc |-> "register_insert", op |-> "register", arg |-> body,
                    newUser |-> [userId |-> userId, password |-> Hash(password),
                                 email |-> email, role |-> validRole(role),
                                 registeredTeachers |-> <<>>]])

RegisterInsert(s) ==
  /\ req[s].pc = "register_insert"
  /\ Len(users) < MaxUsers
  /\ users' = Append(users, req[s].newUser)
  /\ Finish(s, Plain("register", 201, FALSE, Anonymous, req[s].arg))
  /\ UNCHANGED <<now, schedules, board, issued>>

(* ---------------------------------------------------------------- login *)
\* generateToken and the 200 response of login
IssueToken(userId, role) ==
  LET token == generateToken(userId, role, now)
  IN /\ Cardinality(issued \cup {token}) <= MaxTokens
     /\ issued' = issued \cup {token}
     /\ Answer(Reply("login", 200, FALSE, Anonymous, userId, token))

Login(s, userId, password) ==
  /\ req[s].pc = "idle"
  /\ UNCHANGED <<now, users, schedules, board>>
  /\ IF userId = "" \/ password = ""
     THEN Answer(Plain("login", 400, FALSE, Anonymous, userId)) /\ UNCHANGED issued
     ELSE IF userId = ADMIN_USER_ID /\ password = ADMIN_PASSWORD
     THEN IssueToken(userId, "superadmin")
     ELSE LET i == findUser(users, userId)
          IN IF i = 0
             THEN Answer(Plain("login", 404, FALSE, Anonymous, userId))
                  /\ UNCHANGED issued
             ELSE IF ~Compare(password, users[i].password)
             THEN Answer(Plain("login", 401, FALSE, Anonymous, userId))
                  /\ UNCHANGED issued
             ELSE IssueToken(userId, users[i].role)

(* ------------------------------------------------------- changePassword *)
\* changePassword without the comparison of currentPassword
ChangePassword_NoCurrentCheck(s, userId, currentPassword, newPassword) ==
  /\ req[s].pc = "idle"
  /\ UNCHANGED <<now, users, schedules, board, issued>>
  /\ LET body == [userId |-> userId, currentPassword |-> currentPassword,
                  newPassword |-> newPassword]
     IN IF userId = "" \/ currentPassword = "" \/ newPassword = ""
        THEN Answer(Plain("changePassword", 400, FALSE, Anonymous, body))
        ELSE IF Len(newPassword) < MinPasswordLen
        THEN Answer(Plain("changePassword", 400, FALSE, Anonymous, body))
        ELSE LET i == findUser(users, userId)
             IN IF i = 0
                THEN Answer(Plain("changePassword", 404, FALSE, Anonymous, body))
                ELSE IF Compare(newPassword, users[i].password)
                THEN Answer(Plain("changePassword", 400, FALSE, Anonymous, body))
                ELSE Await(s, [pc |-> "changePassword_update", op |-> "changePassword",
                               arg |-> userId, currentPassword |-> currentPassword,
                               hashedPassword |-> Hash(newPassword)])

ChangePassword(s, userId, currentPassword, newPassword) ==
  /\ req[s].pc = "idle"
  /\ UNCHANGED <<now, users, schedules, board, issued>>
  /\ LET body == [userId |-> userId, currentPassword |-> currentPassword,
                  newPassword |-> newPassword]
     IN IF userId = "" \/ currentPassword = "" \/ newPassword = ""
        THEN Answer(Plain("changePassword", 400, FALSE, Anonymous, body))
        ELSE IF Len(newPassword) < MinPasswordLen
        THEN Answer(Plain("changePassword", 400, FALSE, Anonymous, body))
        ELSE LET i == findUser(users, userId)
             IN IF i = 0
                THEN Answer(Plain("changePassword", 404, FALSE, Anonymous, body))
                ELSE IF ~Compare(currentPassword, users[i].password)
                THEN Answer(Plain("changePassword", 401, FALSE, Anonymous, body))
                ELSE IF Compare(newPassword, users[i].password)
                THEN Answer(Plain("changePassword", 400, FALSE, Anonymous, body))
                ELSE Await(s, [pc |-> "changePassword_update", op |-> "changePassword",
                               arg |-> userId, currentPassword |-> currentPassword,
                               hashedPassword |-> Hash(newPassword)])

ChangePasswordUpdate(s) ==
  /\ req[s].pc = "changePassword_update"
  /\ users' = setPassword(users, req[s].arg, req[s].hashedPassword)
  /\ Finish(s, Plain("changePassword", 200, FALSE, Anonymous, req[s].arg))
  /\ UNCHANGED <<now, schedules, board, issued>>

(* -------------------------------------------------------- resetPassword *)
\* String.prototype.toLowerCase on the strings of the model
toLowerCase(str) ==
  CASE str = "A@X.KR" -> "a@x.kr"
    [] str = "HEL" -> "hel"
    [] str = "Fall2024" -> "fall2024"
    [] str = " Fall2024 " -> " fall2024 "
    [] OTHER -> str

\* generateTempPassword(): 8 random characters
TempPasswords == {"Tmp4aB7x"}

ResetPassword(s, userId, email) ==
  /\ req[s].pc = "idle"
  /\ UNCHANGED <<now, users, schedules, board, issued>>
  /\ IF userId = "" \/ email = ""
     THEN Answer(Plain("resetPassword", 400, FALSE, Anonymous, userId))
     ELSE LET i == findUser(users, userId)
          IN IF i = 0
             THEN Answer(Plain("resetPassword", 404, FALSE, Anonymous, userId))
             ELSE IF users[i].email = "" \/ toLowerCase(users[i].email) # toLowerCase(email)
             THEN Answer(Plain("resetPassword", 403, FALSE, Anonymous, userId))
             ELSE \E tempPassword \in TempPasswords :
                    Await(s, [pc |-> "resetPassword_update", op |-> "resetPassword",
                              arg |-> userId, hashedPassword |-> Hash(tempPassword)])

ResetPasswordUpdate(s) ==
  /\ req[s].pc = "resetPassword_update"
  /\ users' = setPassword(users, req[s].arg, req[s].hashedPassword)
  /\ req' = [req EXCEPT ![s].pc = "resetPassword_mail"]
  /\ UNCHANGED <<now, schedules, board, issued, resp>>

\* transporter.sendMail resolves or rejects
ResetPasswordMail(s, sent) ==
  /\ req[s].pc = "resetPassword_mail"
  /\ Finish(s, Plain("resetPassword", IF sent THEN 200 ELSE 500, FALSE,
                     Anonymous, req[s].arg))
  /\ UNCHANGED <<now, users, schedules, board, issued>>

(* -------------------------------------------------------- deleteAccount *)
\* deleteAccount without the comparison of the token's userId with the body's
DeleteAccount_NoOwnerCheck(s, hdr, userId, password) ==
  /\ req[s].pc = "idle"
  /\ UNCHANGED <<now, users, schedules, board, issued>>
  /\ LET d == authenticate(hdr, now)
     IN IF ~d.ok
        THEN Answer(Plain("deleteAccount", 401, Genuine(hdr, now), Anonymous, userId))
        ELSE IF userId = "" \/ password = ""
        THEN Answer(Plain("deleteAccount", 400, Genuine(hdr, now), d, userId))
        ELSE LET i == findUser(users, userId)
             IN IF i = 0
                THEN Answer(Plain("deleteAccount", 404, Genuine(hdr, now), d, userId))
                ELSE IF ~Compare(password, users[i].password)
                THEN Answer(Plain("deleteAccount", 401, Genuine(hdr, now), d, userId))
                ELSE Await(s, [pc |-> "deleteAccount_delete", op |-> "deleteAccount",
                               cred |-> Genuine(hdr, now), userId |-> d.userId, role |-> d.role,
                               arg |-> userId, password |-> password])

DeleteAccount(s, hdr, userId, password) ==
  /\ req[s].pc = "idle"
  /\ UNCHANGED <<now, users, schedules, board, issued>>
  /\ LET d == authenticate(hdr, now)
     IN IF ~d.ok
        THEN Answer(Plain("deleteAccount", 401, Genuine(hdr, now), Anonymous, userId))
        ELSE IF userId = "" \/ password = ""
        THEN Answer(Plain("deleteAccount", 400, Genuine(hdr, now), d, userId))
        ELSE IF d.userId # userId
        THEN Answer(Plain("deleteAccount", 403, Genuine(hdr, now), d, userId))
        ELSE LET i == findUser(users, userId)
             IN IF i = 0
                THEN Answer(Plain("deleteAccount", 404, Genuine(hdr, now), d, userId))
                ELSE IF ~Compare(password, users[i].password)
                THEN Answer(Plain("deleteAccount", 401, Genuine(hdr, now), d, userId))
                ELSE Await(s, [pc |-> "deleteAccount_delete", op |-> "deleteAccount",
                               cred |-> Genuine(hdr, now), userId |-> d.userId, role |-> d.role,
                               arg |-> userId, password |-> password])

DeleteAccountDelete(s) ==
  /\ req[s].pc = "deleteAccount_delete"
  /\ users' = deleteUser(users, req[s].arg)
  /\ Finish(s, Plain("deleteAccount", 200, req[s].cred, req[s], req[s].arg))
  /\ UNCHANGED <<now, schedules, board, issued>>

(* ---------------------------------------------------------- createAdmin *)
CreateAdmin(s, hdr, userId, password, email) ==
  /\ req[s].pc = "idle"
  /\ UNCHANGED <<now, users, schedules, board, issued>>
  /\ LET d == authenticate(hdr, now)
     IN IF ~d.ok
        THEN Answer(Plain("createAdmin", 401, Genuine(hdr, now), Anonymous, userId))
        ELSE IF d.role # "superadmin"
        THEN Answer(Plain("createAdmin", 403, Genuine(hdr, now), d, userId))
        ELSE IF userId = "" \/ password = "" \/ email = ""
        THEN Answer(Plain("createAdmin", 400, Genuine(hdr, now), d, userId))
        ELSE IF Len(password) < MinPasswordLen
        THEN Answer(Plain("createAdmin", 400, Genuine(hdr, now), d, userId))
        ELSE IF findUser(users, userId) # 0
        THEN Answer(Plain("createAdmin", 409, Genuine(hdr, now), d, userId))
        ELSE Await(s, [pc |-> "createAdmin_insert", op |-> "createAdmin",
                       cred |-> Genuine(hdr, now), userId |-> d.userId, role |-> d.role,
                       newUser |-> [userId |-> userId, password |-> Hash(password),
                                    email |-> email, role |-> "admin",
                                    registeredTeachers |-> <<>>]])

CreateAdminInsert(s) ==
  /\ req[s].pc = "createAdmin_insert"
  /\ Len(users) < MaxUsers
  /\ users' = Append(users, req[s].newUser)
  /\ Finish(s, Plain("createAdmin", 201, req[s].cred, req[s], req[s].newUser.userId))
  /\ UNCHANGED <<now, schedules, board, issued>>

(* ------------------------------------------------------ schedules store *)
\* String.prototype.trim on the strings of the model
trim(str) == IF str = " Fall2024 " THEN "Fall2024" ELSE str

\* new RegExp(`^${pattern}$`, "i").test(str), for patterns without
\* metacharacters
regexTestI(pattern, str) == toLowerCase(str) = toLowerCase(pattern)

\* parseInt on the strings of the model
parseInt(str) == IF str = "1" THEN 1 ELSE IF str = "2" THEN 2 ELSE 0

\* Array(n).fill("")
emptyStrings(n) == [k \in 1..n |-> ""]

\* findOne({ sheetName }): the owner is left out of the filter
findSheet_AnyOwner(ss, userId, sheetName) ==
  IF \E i \in 1..Len(ss) : ss[i].sheetName = sheetName
  THEN CHOOSE i \in 1..Len(ss) :
         /\ ss[i].sheetName = sheetName
         /\ \A j \in 1..(i - 1) : ss[j].sheetName # sheetName
  ELSE 0

\* schedulesCollection.findOne({ userId, sheetName }): index, 0 if none
findSheet(ss, userId, sheetName) ==
  IF \E i \in 1..Len(ss) : ss[i].userId = userId /\ ss[i].sheetName = sheetName
  THEN CHOOSE i \in 1..Len(ss) :
         /\ ss[i].userId = userId /\ ss[i].sheetName = sheetName
         /\ \A j \in 1..(i - 1) : ~(ss[j].userId = userId /\ ss[j].sheetName = sheetName)
  ELSE 0

\* schedulesCollection.findOne({ userId, title: { $regex: ^normalizedTitle$, i } })
findTitle(ss, userId, normalizedTitle) ==
  \E i \in 1..Len(ss) : ss[i].userId = userId /\ regexTestI(normalizedTitle, ss[i].title)

\* a value the request body may leave out
Omitted == [given |-> FALSE, value |-> <<>>]
Given(v) == [given |-> TRUE, value |-> v]

\* x || y falling back to nothing when x is left out
OrElse_DropsFallback(opt, fallback) == opt.value

\* x || y on an optional array
OrElse(opt, fallback) == IF opt.given THEN opt.value ELSE fallback

(* ------------------------------------------------------ getAllSchedules *)
\* find(query).sort({ createdAt: 1 }): a stable sort of the matches
RECURSIVE sortByCreatedAt(_)
sortByCreatedAt(seq) ==
  IF Len(seq) <= 1 THEN seq
  ELSE LET m == CHOOSE i \in 1..Len(seq) :
                  /\ \A j \in 1..Len(seq) : seq[i].createdAt <= seq[j].createdAt
                  /\ \A j \in 1..(i - 1) : seq[j].createdAt > seq[i].createdAt
       IN <<seq[m]>> \o sortByCreatedAt(RemoveAt(seq, m))

\* the query of getAllSchedules without the roster filter
listFor_IgnoresRoster(ss, userId, role) ==
  IF role = "admin"
  THEN sortByCreatedAt(SelectSeq(ss, LAMBDA sheet : sheet.userId = userId))
  ELSE sortByCreatedAt(ss)

\* find({ userId }) for role admin, find({ teacherUserIds: userId }) for
\* every other role, sorted by createdAt
listFor(ss, userId, role) ==
  IF role = "admin"
  THEN sortByCreatedAt(SelectSeq(ss, LAMBDA sheet : sheet.userId = userId))
  ELSE sortByCreatedAt(SelectSeq(ss, LAMBDA sheet :
         \E k \in 1..Len(sheet.teacherUserIds) : sheet.teacherUserIds[k] = userId))

GetAllSchedules(s, hdr) ==
  /\ req[s].pc = "idle"
  /\ UNCHANGED <<now, users, schedules, board, issued>>
  /\ LET d == authenticate(hdr, now)
     IN IF ~d.ok
        THEN Answer(Plain("getAllSchedules", 401, Genuine(hdr, now), Anonymous, <<>>))
        ELSE IF d.userId = ""
        THEN Answer(Plain("getAllSchedules", 401, Genuine(hdr, now), d, <<>>))
        ELSE Answer(Plain("getAllSchedules", 200, Genuine(hdr, now), d,
                          listFor(schedules, d.userId, d.role)))

(* ------------------------------------------------------- createSchedule *)
\* createSchedule with the role check of updateSchedule
CreateSchedule_DeniesUserOnly(s, hdr, sheetName, settings) ==
  /\ req[s].pc = "idle"
  /\ UNCHANGED <<now, users, schedules, board, issued>>
  /\ LET d == authenticate(hdr, now)
         c == Genuine(hdr, now)
     IN IF ~d.ok
        THEN Answer(Plain("createSchedule", 401, c, Anonymous, sheetName))
        ELSE IF d.userId = ""
        THEN Answer(Plain("createSchedule", 401, c, d, sheetName))
        ELSE IF d.role = "user"
        THEN Answer(Plain("createSchedule", 403, c, d, sheetName))
        ELSE IF sheetName = ""
        THEN Answer(Plain("createSchedule", 400, c, d, sheetName))
        ELSE IF findSheet(schedules, d.userId, sheetName) # 0
        THEN Answer(Plain("createSchedule", 409, c, d, sheetName))
        ELSE Await(s, [pc |-> "createSchedule_title", op |-> "createSchedule",
                       cred |-> c, userId |-> d.userId, role |-> d.role,
                       arg |-> sheetName, settings |-> settings])

CreateSchedule(s, hdr, sheetName, settings) ==
  /\ req[s].pc = "idle"
  /\ UNCHANGED <<now, users, schedules, board, issued>>
  /\ LET d == authenticate(hdr, now)
         c == Genuine(hdr, now)
     IN IF ~d.ok
        THEN Answer(Plain("createSchedule", 401, c, Anonymous, sheetName))
        ELSE IF d.userId = ""
        THEN Answer(Plain("createSchedule", 401, c, d, sheetName))
        ELSE IF d.role # "admin"
        THEN Answer(Plain("createSchedule", 403, c, d, sheetName))
        ELSE IF sheetName = ""
        THEN Answer(Plain("createSchedule", 400, c, d, sheetName))
        ELSE IF findSheet(schedules, d.userId, sheetName) # 0
        THEN Answer(Plain("createSchedule", 409, c, d, sheetName))
        ELSE Await(s, [pc |-> "createSchedule_title", op |-> "createSchedule",
                       cred |-> c, userId |-> d.userId, role |-> d.role,
                       arg |-> sheetName, settings |-> settings])

CreateScheduleTitle(s) ==
  /\ req[s].pc = "createSchedule_title"
  /\ UNCHANGED <<now, users, schedules, board, issued>>
  /\ LET normalizedTitle == toLowerCase(trim(req[s].settings.title))
     IN IF findTitle(schedules, req[s].userId, normalizedTitle)
        THEN Finish(s, Plain("createSchedule", 409, req[s].cred, req[s], req[s].arg))
        ELSE /\ req' = [req EXCEPT ![s].pc = "createSchedule_insert"]
             /\ UNCHANGED resp

\* insertOne as it would be without the unique index
CreateScheduleInsert_NoUniqueIndex(s) ==
  /\ req[s].pc = "createSchedule_insert"
  /\ UNCHANGED <<now, users, board, issued>>
  /\ LET st == req[s].settings
         newSchedule ==
           [userId |-> req[s].userId, sheetName |-> req[s].arg, title |-> st.title,
            numOfTeachers |-> st.numOfTeachers, teacherNames |-> st.teacherNames,
            teacherUserIds |-> emptyStrings(parseInt(st.numOfTeachers)),
            dayDates |-> OrElse(st.dayDates, <<>>), createdAt |-> now]
     IN /\ Len(schedules) < MaxSheets
        /\ schedules' = Append(schedules, newSchedule)
        /\ Finish(s, Plain("createSchedule", 201, req[s].cred, req[s], req[s].arg))

\* insertOne under the unique index idx_userId_sheetName
CreateScheduleInsert(s) ==
  /\ req[s].pc = "createSchedule_insert"
  /\ UNCHANGED <<now, users, board, issued>>
  /\ LET st == req[s].settings
         newSchedule ==
           [userId |-> req[s].userId, sheetName |-> req[s].arg, title |-> st.title,
            numOfTeachers |-> st.numOfTeachers, teacherNames |-> st.teacherNames,
            teacherUserIds |-> emptyStrings(parseInt(st.numOfTeachers)),
            dayDates |-> OrElse(st.dayDates, <<>>), createdAt |-> now]
     IN IF findSheet(schedules, req[s].userId, req[s].arg) # 0
        THEN /\ Finish(s, Plain("createSchedule", 500, req[s].cred, req[s], req[s].arg))
             /\ UNCHANGED schedules
        ELSE /\ Len(schedules) < MaxSheets
             /\ schedules' = Append(schedules, newSchedule)
             /\ Finish(s, Plain("createSchedule", 201, req[s].cred, req[s], req[s].arg))

(* ------------------------------------------------------- updateSchedule *)
UpdateSchedule(s, hdr, sheetName, settings) ==
  /\ req[s].pc = "idle"
  /\ UNCHANGED <<now, users, schedules, board, issued>>
  /\ LET d == authenticate(hdr, now)
         c == Genuine(hdr, now)
     IN IF ~d.ok
        THEN Answer(Plain("updateSchedule", 401, c, Anonymous, sheetName))
        ELSE IF d.userId = ""
        THEN Answer(Plain("updateSchedule", 401, c, d, sheetName))
        ELSE IF d.role = "user"
        THEN Answer(Plain("updateSchedule", 403, c, d, sheetName))
        ELSE LET i == findSheet(schedules, d.userId, sheetName)
             IN IF i = 0
                THEN Answer(Plain("updateSchedule", 404, c, d, sheetName))
                ELSE Await(s, [pc |-> "updateSchedule_update", op |-> "updateSchedule",
                               cred |-> c, userId |-> d.userId, role |-> d.role,
                               arg |-> sheetName, settings |-> settings,
                               updateFields |->
                                 [title |-> settings.title,
                                  numOfTeachers |-> settings.numOfTeachers,
                                  teacherNames |-> settings.teacherNames,
                                  teacherUserIds |->
                                    OrElse(settings.teacherUserIds, schedules[i].teacherUserIds),
                                  dayDates |->
                                    OrElse(settings.dayDates, schedules[i].dayDates)]])

\* schedulesCollection.updateOne({ userId, sheetName }, { $set: updateFields })
UpdateScheduleUpdate(s) ==
  /\ req[s].pc = "updateSchedule_update"
  /\ UNCHANGED <<now, users, board, issued>>
  /\ LET i == findSheet(schedules, req[s].userId, req[s].arg)
         f == req[s].updateFields
     IN schedules' =
          IF i = 0 THEN schedules
          ELSE [schedules EXCEPT ![i] =
                  [@ EXCEPT !.title = f.title, !.numOfTeachers = f.numOfTeachers,
                            !.teacherNames = f.teacherNames,
                            !.teacherUserIds = f.teacherUserIds,
                            !.dayDates = f.dayDates]]
  /\ Finish(s, Plain("updateSchedule", 200, req[s].cred, req[s], req[s].arg))

(* ------------------------------------------------------- deleteSchedule *)
\* deleteSchedule without the existence check
DeleteSchedule_NoLookup(s, hdr, sheetName) ==
  /\ req[s].pc = "idle"
  /\ UNCHANGED <<now, users, schedules, board, issued>>
  /\ LET d == authenticate(hdr, now)
         c == Genuine(hdr, now)
     IN IF ~d.ok
        THEN Answer(Plain("deleteSchedule", 401, c, Anonymous, sheetName))
        ELSE IF d.userId = ""
        THEN Answer(Plain("deleteSchedule", 401, c, d, sheetName))
        ELSE IF d.role # "admin"
        THEN Answer(Plain("deleteSchedule", 403, c, d, sheetName))
        ELSE Await(s, [pc |-> "deleteSchedule_delete", op |-> "deleteSchedule",
                       cred |-> c, userId |-> d.userId, role |-> d.role,
                       arg |-> sheetName])

DeleteSchedule(s, hdr, sheetName) ==
  /\ req[s].pc = "idle"
  /\ UNCHANGED <<now, users, schedules, board, issued>>
  /\ LET d == authenticate(hdr, now)
         c == Genuine(hdr, now)
     IN IF ~d.ok
        THEN Answer(Plain("deleteSchedule", 401, c, Anonymous, sheetName))
        ELSE IF d.userId = ""
        THEN Answer(Plain("deleteSchedule", 401, c, d, sheetName))
        ELSE IF d.role # "admin"
        THEN Answer(Plain("deleteSchedule", 403, c, d, sheetName))
        ELSE IF findSheet(schedules, d.userId, sheetName) = 0
        THEN Answer(Plain("deleteSchedule", 404, c, d, sheetName))
        ELSE Await(s, [pc |-> "deleteSchedule_delete", op |-> "deleteSchedule",
                       cred |-> c, userId |-> d.userId, role |-> d.role,
                       arg |-> sheetName])

\* schedulesCollection.deleteOne({ userId, sheetName })
DeleteScheduleDelete(s) ==
  /\ req[s].pc = "deleteSchedule_delete"
  /\ UNCHANGED <<now, users, board, issued>>
  /\ LET i == findSheet(schedules, req[s].userId, req[s].arg)
     IN schedules' = IF i = 0 THEN schedules ELSE RemoveAt(schedules, i)
  /\ Finish(s, Plain("deleteSchedule", 200, req[s].cred, req[s], req[s].arg))

(* --------------------------------------------------------------- roster *)
VerifyTeacher(s, hdr, teacherId) ==
  /\ req[s].pc = "idle"
  /\ UNCHANGED <<now, users, schedules, board, issued>>
  /\ LET d == authenticate(hdr, now)
         c == Genuine(hdr, now)
         i == findUser(users, teacherId)
     IN IF ~d.ok
        THEN Answer(Plain("verifyTeacher", 401, c, Anonymous, teacherId))
        ELSE IF teacherId = ""
        THEN Answer(Plain("verifyTeacher", 400, c, d, teacherId))
        ELSE IF d.role # "admin"
        THEN Answer(Plain("verifyTeacher", 403, c, d, teacherId))
        ELSE IF i = 0
        THEN Answer(Plain("verifyTeacher", 404, c, d, teacherId))
        ELSE IF users[i].role # "user"
        THEN Answer(Plain("verifyTeacher", 400, c, d, teacherId))
        ELSE Answer(Plain("verifyTeacher", 200, c, d, teacherId))

\* usersCollection.updateOne({ userId }, { $set: { registeredTeachers } })
setRegisteredTeachers(us, userId, teachers) ==
  LET i == findUser(us, userId)
  IN IF i = 0 THEN us ELSE [us EXCEPT ![i].registeredTeachers = teachers]

\* saveRegisteredTeachers without the role check
SaveRegisteredTeachers_NoRoleCheck(s, hdr, teachers) ==
  /\ req[s].pc = "idle"
  /\ UNCHANGED <<now, schedules, board, issued>>
  /\ LET d == authenticate(hdr, now)
         c == Genuine(hdr, now)
     IN IF ~d.ok
        THEN /\ Answer(Plain("saveRegisteredTeachers", 401, c, Anonymous, teachers))
             /\ UNCHANGED users
        ELSE /\ users' = setRegisteredTeachers(users, d.userId, teachers)
             /\ Answer(Plain("saveRegisteredTeachers", 200, c, d, teachers))

\* the body field teachers is always an array here
SaveRegisteredTeachers(s, hdr, teachers) ==
  /\ req[s].pc = "idle"
  /\ UNCHANGED <<now, schedules, board, issued>>
  /\ LET d == authenticate(hdr, now)
         c == Genuine(hdr, now)
     IN IF ~d.ok
        THEN /\ Answer(Plain("saveRegisteredTeachers", 401, c, Anonymous, teachers))
             /\ UNCHANGED users
        ELSE IF d.role # "admin"
        THEN /\ Answer(Plain("saveRegisteredTeachers", 403, c, d, teachers))
             /\ UNCHANGED users
        ELSE /\ users' = setRegisteredTeachers(users, d.userId, teachers)
             /\ Answer(Plain("saveRegisteredTeachers", 200, c, d, teachers))

GetRegisteredTeachers(s, hdr) ==
  /\ req[s].pc = "idle"
  /\ UNCHANGED <<now, users, schedules, board, issued>>
  /\ LET d == authenticate(hdr, now)
         c == Genuine(hdr, now)
     IN IF ~d.ok
        THEN Answer(Plain("getRegisteredTeachers", 401, c, Anonymous, <<>>))
        ELSE IF d.role # "admin"
        THEN Answer(Plain("getRegisteredTeachers", 403, c, d, <<>>))
        ELSE IF findUser(users, d.userId) = 0
        THEN Answer(Plain("getRegisteredTeachers", 404, c, d, <<>>))
        ELSE Answer(Plain("getRegisteredTeachers", 200, c, d,
                          users[findUser(users, d.userId)].registeredTeachers))

(* ---------------------------------------------------------------- board *)
\* 60 * 1000 ms, scaled to clock ticks
SPAM_PREVENTION_TIME == 1

\* an id in a request path is a string; the model writes n for the 24 hex
\* digits of ObjectId n as toString() prints them, -n for the same digits in
\* upper case, and 0 for a string that is no ObjectId
isValid(str) == str # 0

\* new ObjectId(str): hex digits are read without regard to case
ObjectId(str) == IF str < 0 THEN 0 - str ELSE str

\* findOne({ _id }): index of the document with this id, 0 if none
findById(docs, id) ==
  IF \E i \in 1..Len(docs) : docs[i].id = id
  THEN CHOOSE i \in 1..Len(docs) : docs[i].id = id
  ELSE 0

\* the cooldown lookup sorted by ascending createdAt: the oldest document
\* of the author decides
wroteRecently_OldestFirst(docs, authorId, t) ==
  \E i \in 1..Len(docs) :
    /\ docs[i].authorId = authorId
    /\ \A j \in 1..Len(docs) :
         docs[j].authorId = authorId => docs[j].createdAt >= docs[i].createdAt
    /\ t - docs[i].createdAt < SPAM_PREVENTION_TIME

\* find({ authorId }).sort({ createdAt: -1 }).limit(1): is the newest
\* document of this author younger than the cooldown
wroteRecently(docs, authorId, t) ==
  \E i \in 1..Len(docs) :
    /\ docs[i].authorId = authorId
    /\ \A j \in 1..Len(docs) :
         docs[j].authorId = authorId => docs[j].createdAt <= docs[i].createdAt
    /\ t - docs[i].createdAt < SPAM_PREVENTION_TIME

\* the board routes: authenticate, then blockUserRole; 0 when the request
\* reaches the handler
boardGate(d) == IF ~d.ok THEN 401 ELSE IF d.role = "user" THEN 403 ELSE 0

\* new RegExp(pattern, "i").test(str), for patterns without metacharacters:
\* the lower-cased pattern occurs in the lower-cased string
regexSearchI(pattern, str) ==
  LET lp == toLowerCase(pattern)
      ls == toLowerCase(str)
  IN CASE lp = "" -> TRUE
       [] lp = "hel" -> ls \in {"hel", "hello"}
       [] OTHER -> ls = lp

\* { $or: [{ title: { $regex: search, $options: "i" } }, { content: ... }] },
\* no condition when the search term is empty
matchesSearch(post, search) ==
  \/ search = ""
  \/ regexSearchI(search, post.title)
  \/ regexSearchI(search, post.content)

\* find(noticeQuery): the notices, filtered by the search term
noticeQuery(ps, search) ==
  SelectSeq(ps, LAMBDA post : post.isNotice /\ matchesSearch(post, search))

\* find(normalQuery): the posts that are no notices, filtered by the search term
normalQuery(ps, search) ==
  SelectSeq(ps, LAMBDA post : ~post.isNotice /\ matchesSearch(post, search))

\* sort({ createdAt: -1 }): a stable sort, newest first
RECURSIVE sortNewestFirst(_)
sortNewestFirst(seq) ==
  IF Len(seq) <= 1 THEN seq
  ELSE LET m == CHOOSE i \in 1..Len(seq) :
                  /\ \A j \in 1..Len(seq) : seq[i].createdAt >= seq[j].createdAt
                  /\ \A j \in 1..(i - 1) : seq[j].createdAt < seq[i].createdAt
       IN <<seq[m]>> \o sortNewestFirst(RemoveAt(seq, m))

\* skip(skip).limit(limit)
skipLimit(seq, skip, limit) ==
  SubSeq(seq, skip + 1, IF skip + limit < Len(seq) THEN skip + limit ELSE Len(seq))

\* getPosts up to its first query: the notices on page 1, the count of the
\* other posts on later pages
GetPosts(s, hdr, page, limit, search) ==
  /\ req[s].pc = "idle"
  /\ UNCHANGED <<now, users, schedules, board, issued>>
  /\ LET d == authenticate(hdr, now)
         c == Genuine(hdr, now)
         pageN == IF parseInt(page) = 0 THEN 1 ELSE parseInt(page)
         limitN == IF parseInt(limit) = 0 THEN 10 ELSE parseInt(limit)
     IN IF boardGate(d) # 0
        THEN Answer(Plain("getPosts", boardGate(d), c, d, 0))
        ELSE IF pageN = 1
        THEN Await(s, [pc |-> "getPosts_count", op |-> "getPosts", cred |-> c,
                       userId |-> d.userId, role |-> d.role, arg |-> 0,
                       page |-> pageN, shown |-> pageN, limit |-> limitN,
                       search |-> search,
                       notices |-> sortNewestFirst(noticeQuery(posts, search)),
                       total |-> 0])
        ELSE Await(s, [pc |-> "getPosts_find", op |-> "getPosts", cred |-> c,
                       userId |-> d.userId, role |-> d.role, arg |-> 0,
                       page |-> pageN, shown |-> pageN, limit |-> limitN,
                       search |-> search, notices |-> <<>>,
                       total |-> Len(normalQuery(posts, search))])

\* postsCollection.countDocuments(normalQuery)
GetPostsCount(s) ==
  /\ req[s].pc = "getPosts_count"
  /\ req' = [req EXCEPT ![s].pc = "getPosts_find",
                        ![s].total = Len(normalQuery(posts, req[s].search))]
  /\ UNCHANGED <<now, users, schedules, board, issued, resp>>

\* find(normalQuery).sort({ createdAt: -1 }).skip(skip).limit(limit) and the
\* 200 response
GetPostsFind(s) ==
  /\ req[s].pc = "getPosts_find"
  /\ UNCHANGED <<now, users, schedules, board, issued>>
  /\ LET r == req[s]
         skip == (r.shown - 1) * r.limit
         normalPosts == skipLimit(sortNewestFirst(normalQuery(posts, r.search)),
                                  skip, r.limit)
     IN Finish(s, Plain("getPosts", 200, r.cred, r,
                        [posts |-> IF r.page = 1 THEN r.notices \o normalPosts
                                   ELSE normalPosts,
                         total |-> r.total + (IF r.page = 1 THEN Len(r.notices) ELSE 0),
                         page |-> r.shown, limit |-> r.limit, search |-> r.search]))

GetPostById(s, hdr, postId) ==
  /\ req[s].pc = "idle"
  /\ UNCHANGED <<now, users, schedules, board, issued>>
  /\ LET d == authenticate(hdr, now)
         c == Genuine(hdr, now)
     IN IF boardGate(d) # 0
        THEN Answer(Plain("getPostById", boardGate(d), c, d, postId))
        ELSE IF ~isValid(postId)
        THEN Answer(Plain("getPostById", 400, c, d, postId))
        ELSE IF findById(posts, ObjectId(postId)) = 0
        THEN Answer(Plain("getPostById", 404, c, d, postId))
        ELSE Await(s, [pc |-> "getPostById_inc", op |-> "getPostById", cred |-> c,
                       userId |-> d.userId, role |-> d.role, arg |-> postId])

\* postsCollection.updateOne({ _id }, { $inc: { views: 1 } })
GetPostByIdInc(s) ==
  /\ req[s].pc = "getPostById_inc"
  /\ LET i == findById(posts, ObjectId(req[s].arg))
     IN /\ i # 0 => posts[i].views < MaxViews
        /\ posts' = IF i = 0 THEN posts ELSE [posts EXCEPT ![i].views = @ + 1]
  /\ req' = [req EXCEPT ![s].pc = "getPostById_read"]
  /\ UNCHANGED <<now, users, schedules, comments, nextId, issued, resp>>

GetPostByIdRead(s) ==
  /\ req[s].pc = "getPostById_read"
  /\ Finish(s, Plain("getPostById", 200, req[s].cred, req[s], req[s].arg))
  /\ UNCHANGED <<now, users, schedules, board, issued>>

\* an insert that marks every post written by an administrator as a notice
insertPost_AdminNotice(s, c, d, title, content) ==
  /\ nextId <= MaxIds
  /\ posts' = Append(posts, [id |-> nextId, title |-> title, content |-> content,
                             authorId |-> d.userId, authorRole |-> d.role,
                             isNotice |-> (d.role \in {"admin", "superadmin"}), views |-> 0,
                             createdAt |-> now])
  /\ nextId' = nextId + 1
  /\ resp' = Plain("createPost", 201, c, d, nextId)
  /\ req' = [req EXCEPT ![s] = Idle]

\* postsCollection.insertOne(newPost)
insertPost(s, c, d, title, content) ==
  /\ nextId <= MaxIds
  /\ posts' = Append(posts, [id |-> nextId, title |-> title, content |-> content,
                             authorId |-> d.userId, authorRole |-> d.role,
                             isNotice |-> (d.role = "superadmin"), views |-> 0,
                             createdAt |-> now])
  /\ nextId' = nextId + 1
  /\ resp' = Plain("createPost", 201, c, d, nextId)
  /\ req' = [req EXCEPT ![s] = Idle]

\* createPost with the cooldown applied to every role
CreatePost_GatesSuperadmin(s, hdr, title, content) ==
  /\ req[s].pc = "idle"
  /\ UNCHANGED <<now, users, schedules, comments, issued>>
  /\ LET d == authenticate(hdr, now)
         c == Genuine(hdr, now)
         body == [title |-> title, content |-> content]
     IN IF boardGate(d) # 0
        THEN Answer(Plain("createPost", boardGate(d), c, d, 0)) /\ UNCHANGED <<posts, nextId>>
        ELSE IF title = "" \/ content = ""
        THEN Answer(Plain("createPost", 400, c, d, body)) /\ UNCHANGED <<posts, nextId>>
        ELSE IF wroteRecently(posts, d.userId, now)
        THEN Answer(Plain("createPost", 429, c, d, body)) /\ UNCHANGED <<posts, nextId>>
        ELSE IF d.role = "superadmin"
        THEN insertPost(s, c, d, title, content)
        ELSE /\ Await(s, [pc |-> "createPost_author", op |-> "createPost", cred |-> c,
                          userId |-> d.userId, role |-> d.role, arg |-> 0,
                          title |-> title, content |-> content])
             /\ UNCHANGED <<posts, nextId>>

CreatePost(s, hdr, title, content) ==
  /\ req[s].pc = "idle"
  /\ UNCHANGED <<now, users, schedules, comments, issued>>
  /\ LET d == authenticate(hdr, now)
         c == Genuine(hdr, now)
         body == [title |-> title, content |-> content]
     IN IF boardGate(d) # 0
        THEN Answer(Plain("createPost", boardGate(d), c, d, 0)) /\ UNCHANGED <<posts, nextId>>
        ELSE IF title = "" \/ content = ""
        THEN Answer(Plain("createPost", 400, c, d, body)) /\ UNCHANGED <<posts, nextId>>
        ELSE IF d.role = "superadmin"
        THEN insertPost(s, c, d, title, content)
        ELSE IF wroteRecently(posts, d.userId, now)
        THEN Answer(Plain("createPost", 429, c, d, body)) /\ UNCHANGED <<posts, nextId>>
        ELSE /\ Await(s, [pc |-> "createPost_author", op |-> "createPost", cred |-> c,
                          userId |-> d.userId, role |-> d.role, arg |-> 0,
                          title |-> title, content |-> content])
             /\ UNCHANGED <<posts, nextId>>

\* usersCollection.findOne({ userId }) for authorEmail
CreatePostAuthor(s) ==
  /\ req[s].pc = "createPost_author"
  /\ UNCHANGED <<now, users, schedules, board, issued>>
  /\ IF findUser(users, req[s].userId) = 0
     THEN Finish(s, Plain("createPost", 404, req[s].cred, req[s], 0))
     ELSE req' = [req EXCEPT ![s].pc = "createPost_insert"] /\ UNCHANGED resp

\* an insert that looks the cooldown up again
CreatePostInsert_RechecksGate(s) ==
  /\ req[s].pc = "createPost_insert"
  /\ UNCHANGED <<now, users, schedules, comments, issued>>
  /\ IF wroteRecently(posts, req[s].userId, now)
     THEN /\ Finish(s, Plain("createPost", 429, req[s].cred, req[s], 0))
          /\ UNCHANGED <<posts, nextId>>
     ELSE insertPost(s, req[s].cred, req[s], req[s].title, req[s].content)

CreatePostInsert(s) ==
  /\ req[s].pc = "createPost_insert"
  /\ insertPost(s, req[s].cred, req[s], req[s].title, req[s].content)
  /\ UNCHANGED <<now, users, schedules, comments, issued>>

\* updatePost with the ownership check of deletePost
UpdatePost_SuperadminEdits(s, hdr, postId, title, content) ==
  /\ req[s].pc = "idle"
  /\ UNCHANGED <<now, users, schedules, board, issued>>
  /\ LET d == authenticate(hdr, now)
         c == Genuine(hdr, now)
         i == findById(posts, ObjectId(postId))
     IN IF boardGate(d) # 0
        THEN Answer(Plain("updatePost", boardGate(d), c, d, postId))
        ELSE IF ~isValid(postId)
        THEN Answer(Plain("updatePost", 400, c, d, postId))
        ELSE IF title = "" \/ content = ""
        THEN Answer(Plain("updatePost", 400, c, d, postId))
        ELSE IF i = 0
        THEN Answer(Plain("updatePost", 404, c, d, postId))
        ELSE IF posts[i].authorId # d.userId /\ d.role # "superadmin"
        THEN Answer(Plain("updatePost", 403, c, d, postId))
        ELSE Await(s, [pc |-> "updatePost_update", op |-> "updatePost", cred |-> c,
                       userId |-> d.userId, role |-> d.role, arg |-> postId,
                       title |-> title, content |-> content])

UpdatePost(s, hdr, postId, title, content) ==
  /\ req[s].pc = "idle"
  /\ UNCHANGED <<now, users, schedules, board, issued>>
  /\ LET d == authenticate(hdr, now)
         c == Genuine(hdr, now)
         i == findById(posts, ObjectId(postId))
     IN IF boardGate(d) # 0
        THEN Answer(Plain("updatePost", boardGate(d), c, d, postId))
        ELSE IF ~isValid(postId)
        THEN Answer(Plain("updatePost", 400, c, d, postId))
        ELSE IF title = "" \/ content = ""
        THEN Answer(Plain("updatePost", 400, c, d, postId))
        ELSE IF i = 0
        THEN Answer(Plain("updatePost", 404, c, d, postId))
        ELSE IF posts[i].authorId # d.userId
        THEN Answer(Plain("updatePost", 403, c, d, postId))
        ELSE Await(s, [pc |-> "updatePost_update", op |-> "updatePost", cred |-> c,
                       userId |-> d.userId, role |-> d.role, arg |-> postId,
                       title |-> title, content |-> content])

\* postsCollection.updateOne({ _id }, { $set: { title, content, updatedAt } })
UpdatePostUpdate(s) ==
  /\ req[s].pc = "updatePost_update"
  /\ LET i == findById(posts, ObjectId(req[s].arg))
     IN posts' = IF i = 0 THEN posts
                 ELSE [posts EXCEPT ![i].title = req[s].title,
                                    ![i].content = req[s].content]
  /\ Finish(s, Plain("updatePost", 200, req[s].cred, req[s], req[s].arg))
  /\ UNCHANGED <<now, users, schedules, comments, nextId, issued>>

\* deletePost that lets every admin delete
DeletePost_AnyAdminDeletes(s, hdr, postId) ==
  /\ req[s].pc = "idle"
  /\ UNCHANGED <<now, users, schedules, board, issued>>
  /\ LET d == authenticate(hdr, now)
         c == Genuine(hdr, now)
         i == findById(posts, ObjectId(postId))
     IN IF boardGate(d) # 0
        THEN Answer(Plain("deletePost", boardGate(d), c, d, postId))
        ELSE IF ~isValid(postId)
        THEN Answer(Plain("deletePost", 400, c, d, postId))
        ELSE IF i = 0
        THEN Answer(Plain("deletePost", 404, c, d, postId))
        ELSE IF posts[i].authorId # d.userId /\ d.role \notin {"admin", "superadmin"}
        THEN Answer(Plain("deletePost", 403, c, d, postId))
        ELSE Await(s, [pc |-> "deletePost_delete", op |-> "deletePost", cred |-> c,
                       userId |-> d.userId, role |-> d.role, arg |-> postId])

DeletePost(s, hdr, postId) ==
  /\ req[s].pc = "idle"
  /\ UNCHANGED <<now, users, schedules, board, issued>>
  /\ LET d == authenticate(hdr, now)
         c == Genuine(hdr, now)
         i == findById(posts, ObjectId(postId))
     IN IF boardGate(d) # 0
        THEN Answer(Plain("deletePost", boardGate(d), c, d, postId))
        ELSE IF ~isValid(postId)
        THEN Answer(Plain("deletePost", 400, c, d, postId))
        ELSE IF i = 0
        THEN Answer(Plain("deletePost", 404, c, d, postId))
        ELSE IF posts[i].authorId # d.userId /\ d.role # "superadmin"
        THEN Answer(Plain("deletePost", 403, c, d, postId))
        ELSE Await(s, [pc |-> "deletePost_delete", op |-> "deletePost", cred |-> c,
                       userId |-> d.userId, role |-> d.role, arg |-> postId])

\* postsCollection.deleteOne({ _id })
DeletePostDelete(s) ==
  /\ req[s].pc = "deletePost_delete"
  /\ LET i == findById(posts, ObjectId(req[s].arg))
     IN posts' = IF i = 0 THEN posts ELSE RemoveAt(posts, i)
  /\ req' = [req EXCEPT ![s].pc = "deletePost_comments"]
  /\ UNCHANGED <<now, users, schedules, comments, nextId, issued, resp>>

\* commentsCollection.deleteMany({ postId })
DeletePostComments(s) ==
  /\ req[s].pc = "deletePost_comments"
  /\ comments' = SelectSeq(comments, LAMBDA cm : cm.postId # req[s].arg)
  /\ Finish(s, Plain("deletePost", 200, req[s].cred, req[s], req[s].arg))
  /\ UNCHANGED <<now, users, schedules, posts, nextId, issued>>

GetComments(s, hdr, postId) ==
  /\ req[s].pc = "idle"
  /\ UNCHANGED <<now, users, schedules, board, issued>>
  /\ LET d == authenticate(hdr, now)
         c == Genuine(hdr, now)
     IN IF boardGate(d) # 0
        THEN Answer(Plain("getComments", boardGate(d), c, d, postId))
        ELSE IF ~isValid(postId)
        THEN Answer(Plain("getComments", 400, c, d, postId))
        ELSE Answer(Plain("getComments", 200, c, d,
                          [postId |-> postId,
                           comments |-> sortByCreatedAt(SelectSeq(comments,
                                          LAMBDA cm : cm.postId = postId))]))

\* createComment without the notice check
CreateComment_NoNoticeCheck(s, hdr, postId, content) ==
  /\ req[s].pc = "idle"
  /\ UNCHANGED <<now, users, schedules, board, issued>>
  /\ LET d == authenticate(hdr, now)
         c == Genuine(hdr, now)
         i == findById(posts, ObjectId(postId))
     IN IF boardGate(d) # 0
        THEN Answer(Plain("createComment", boardGate(d), c, d, postId))
        ELSE IF ~isValid(postId)
        THEN Answer(Plain("createComment", 400, c, d, postId))
        ELSE IF trim(content) = ""
        THEN Answer(Plain("createComment", 400, c, d, postId))
        ELSE IF i = 0
        THEN Answer(Plain("createComment", 404, c, d, postId))
        ELSE Await(s, [pc |-> IF d.role = "superadmin" THEN "createComment_insert"
                              ELSE "createComment_gate",
                       op |-> "createComment", cred |-> c, userId |-> d.userId,
                       role |-> d.role, arg |-> postId, content |-> trim(content)])

CreateComment(s, hdr, postId, content) ==
  /\ req[s].pc = "idle"
  /\ UNCHANGED <<now, users, schedules, board, issued>>
  /\ LET d == authenticate(hdr, now)
         c == Genuine(hdr, now)
         i == findById(posts, ObjectId(postId))
     IN IF boardGate(d) # 0
        THEN Answer(Plain("createComment", boardGate(d), c, d, postId))
        ELSE IF ~isValid(postId)
        THEN Answer(Plain("createComment", 400, c, d, postId))
        ELSE IF trim(content) = ""
        THEN Answer(Plain("createComment", 400, c, d, postId))
        ELSE IF i = 0
        THEN Answer(Plain("createComment", 404, c, d, postId))
        ELSE IF posts[i].isNotice
        THEN Answer(Plain("createComment", 403, c, d, postId))
        ELSE Await(s, [pc |-> IF d.role = "superadmin" THEN "createComment_insert"
                              ELSE "createComment_gate",
                       op |-> "createComment", cred |-> c, userId |-> d.userId,
                       role |-> d.role, arg |-> postId, content |-> trim(content)])

\* the cooldown lookup of createComment made in the posts collection
CreateCommentGate_ReadsPosts(s) ==
  /\ req[s].pc = "createComment_gate"
  /\ UNCHANGED <<now, users, schedules, board, issued>>
  /\ IF wroteRecently(posts, req[s].userId, now)
     THEN Finish(s, Plain("createComment", 429, req[s].cred, req[s], req[s].arg))
     ELSE req' = [req EXCEPT ![s].pc = "createComment_insert"] /\ UNCHANGED resp

\* the cooldown lookup of createComment
CreateCommentGate(s) ==
  /\ req[s].pc = "createComment_gate"
  /\ UNCHANGED <<now, users, schedules, board, issued>>
  /\ IF wroteRecently(comments, req[s].userId, now)
     THEN Finish(s, Plain("createComment", 429, req[s].cred, req[s], req[s].arg))
     ELSE req' = [req EXCEPT ![s].pc = "createComment_insert"] /\ UNCHANGED resp

\* commentsCollection.insertOne(newComment)
CreateCommentInsert(s) ==
  /\ req[s].pc = "createComment_insert"
  /\ nextId <= MaxIds
  /\ comments' = Append(comments, [id |-> nextId, postId |-> req[s].arg,
                                   content |-> req[s].content,
                                   authorId |-> req[s].userId,
                                   authorRole |-> req[s].role, createdAt |-> now])
  /\ nextId' = nextId + 1
  /\ Finish(s, Plain("createComment", 201, req[s].cred, req[s], req[s].arg))
  /\ UNCHANGED <<now, users, schedules, posts, issued>>

DeleteComment(s, hdr, commentId) ==
  /\ req[s].pc = "idle"
  /\ UNCHANGED <<now, users, schedules, board, issued>>
  /\ LET d == authenticate(hdr, now)
         c == Genuine(hdr, now)
         i == findById(comments, ObjectId(commentId))
     IN IF boardGate(d) # 0
        THEN Answer(Plain("deleteComment", boardGate(d), c, d, commentId))
        ELSE IF ~isValid(commentId)
        THEN Answer(Plain("deleteComment", 400, c, d, commentId))
        ELSE IF i = 0
        THEN Answer(Plain("deleteComment", 404, c, d, commentId))
        ELSE IF comments[i].authorId # d.userId /\ d.role # "superadmin"
        THEN Answer(Plain("deleteComment", 403, c, d, commentId))
        ELSE Await(s, [pc |-> "deleteComment_delete", op |-> "deleteComment",
                       cred |-> c, userId |-> d.userId, role |-> d.role,
                       arg |-> commentId])

\* commentsCollection.deleteOne({ _id })
DeleteCommentDelete(s) ==
  /\ req[s].pc = "deleteComment_delete"
  /\ LET i == findById(comments, ObjectId(req[s].arg))
     IN comments' = IF i = 0 THEN comments ELSE RemoveAt(comments, i)
  /\ Finish(s, Plain("deleteComment", 200, req[s].cred, req[s], req[s].arg))
  /\ UNCHANGED <<now, users, schedules, posts, nextId, issued>>

\* request bodies of the schedule routes
SheetNames == {"s1", "s2"}
Titles == {"Fall2024", "fall2024"}
SettingsIn ==
  {[title |-> t, numOfTeachers |-> "1", teacherNames |-> <<"Kim">>,
    teacherUserIds |-> ids, dayDates |-> Omitted] :
      t \in Titles, ids \in {Omitted}}

(* ------------------------------------------ the schedule specification *)
\* accounts come and go while the schedule routes are used, one request
\* at a time
NextSched ==
  \/ \E s \in OneSlot, r \in {"admin", "user"} :
        Register(s, "kim", "kimpass22", "a@x.kr", r)
  \/ \E s \in OneSlot : RegisterInsert(s)
  \/ \E s \in OneSlot, u \in UserIds, p \in Passwords : Login(s, u, p)
  \/ \E s \in OneSlot : ChangePassword(s, ADMIN_USER_ID, ADMIN_PASSWORD, "kimpass22")
  \/ \E s \in OneSlot : ChangePasswordUpdate(s)
  \/ \E s \in OneSlot, h \in Headers, u \in UserIds : DeleteAccount(s, h, u, "kimpass22")
  \/ \E s \in OneSlot : DeleteAccountDelete(s)
  \/ \E s \in OneSlot, h \in Headers : GetAllSchedules(s, h)
  \/ \E s \in OneSlot, h \in Headers, n \in SheetNames, st \in SettingsIn :
        CreateSchedule(s, h, n, st)
  \/ \E s \in OneSlot : CreateScheduleTitle(s)
  \/ \E s \in OneSlot : CreateScheduleInsert(s)
  \/ \E s \in OneSlot, h \in Headers, n \in SheetNames, st \in SettingsIn :
        UpdateSchedule(s, h, n, st)
  \/ \E s \in OneSlot : UpdateScheduleUpdate(s)
  \/ \E s \in OneSlot, h \in Headers, n \in SheetNames : DeleteSchedule(s, h, n)
  \/ \E s \in OneSlot : DeleteScheduleDelete(s)

SpecSched == Init /\ [][NextSched]_vars

(* ------------------------------------------- the account specification *)
\* requests on the account routes, one at a time
NextAuth ==
  \/ \E s \in OneSlot, u \in ReqUserIds, p \in ReqPasswords, e \in ReqEmails,
        r \in ReqRoles : Register(s, u, p, e, r)
  \/ \E s \in OneSlot : RegisterInsert(s)
  \/ \E s \in OneSlot, u \in ReqUserIds, p \in ReqPasswords : Login(s, u, p)
  \/ \E s \in OneSlot, u \in UserIds, p \in Passwords, n \in Passwords :
        ChangePassword(s, u, p, n)
  \/ \E s \in OneSlot : ChangePasswordUpdate(s)
  \/ \E s \in OneSlot, h \in Headers, u \in ReqUserIds, p \in ReqPasswords :
        DeleteAccount(s, h, u, p)
  \/ \E s \in OneSlot : DeleteAccountDelete(s)

SpecAuth == Init /\ [][NextAuth]_vars

(* ---------------------------------------------- the race specification *)
\* overlapping requests that create the account "kim"
NextRace ==
  \/ \E s \in Slots : Login(s, ADMIN_USER_ID, ADMIN_PASSWORD)
  \/ \E s \in Slots, r \in {"admin", "user"} :
        Register(s, "kim", "kimpass22", "a@x.kr", r)
  \/ \E s \in Slots : RegisterInsert(s)
  \/ \E s \in Slots, h \in Headers : CreateAdmin(s, h, "kim", "kimpass22", "a@x.kr")
  \/ \E s \in Slots : CreateAdminInsert(s)

SpecRace == Init /\ [][NextRace]_vars
(* --------------------------------------------- the guard specification *)
\* headers that carry no valid credential: none, another scheme, no jwt,
\* an edited payload, another signing key, an expired token
BadHeaders ==
  {NoHeader, [scheme |-> "Basic", token |-> GarbageToken], Bearer(GarbageToken)}
    \cup {Bearer(Tamper(t)) : t \in {u \in issued : Tamper(u) # u}}
    \cup {Bearer(Forge(t)) : t \in issued}
    \cup {Bearer(t) : t \in {u \in issued : u.exp <= now}}

GuardSettings == {st \in SettingsIn : st.title = "Fall2024"}

\* every route behind authenticate, one request at a time, while the clock
\* runs and tokens expire: account holders fill the stores and read them,
\* clients without a valid credential try every route
NextGuard ==
  \/ Tick
  \/ \E s \in OneSlot : Register(s, "kim", "kimpass22", "a@x.kr", "admin")
  \/ \E s \in OneSlot : RegisterInsert(s)
  \/ \E s \in OneSlot : Login(s, "kim", "kimpass22")
  \/ \E s \in OneSlot, h \in BadHeaders : DeleteAccount(s, h, "kim", "kimpass22")
  \/ \E s \in OneSlot, h \in Headers : VerifyTeacher(s, h, "kim")
  \/ \E s \in OneSlot, h \in BadHeaders : SaveRegisteredTeachers(s, h, <<"lee">>)
  \/ \E s \in OneSlot, h \in Headers : GetRegisteredTeachers(s, h)
  \/ \E s \in OneSlot, h \in Headers : GetAllSchedules(s, h)
  \/ \E s \in OneSlot, h \in Headers, st \in GuardSettings : CreateSchedule(s, h, "s1", st)
  \/ \E s \in OneSlot : CreateScheduleTitle(s)
  \/ \E s \in OneSlot : CreateScheduleInsert(s)
  \/ \E s \in OneSlot, h \in BadHeaders, st \in GuardSettings : UpdateSchedule(s, h, "s1", st)
  \/ \E s \in OneSlot, h \in BadHeaders : DeleteSchedule(s, h, "s1")
  \/ \E s \in OneSlot, h \in Headers : GetPosts(s, h, "1", "", "")
  \/ \E s \in OneSlot : GetPostsCount(s)
  \/ \E s \in OneSlot : GetPostsFind(s)
  \/ \E s \in OneSlot, h \in BadHeaders : GetPostById(s, h, 1)
  \/ \E s \in OneSlot, h \in Headers : CreatePost(s, h, "hello", "text")
  \/ \E s \in OneSlot : CreatePostAuthor(s)
  \/ \E s \in OneSlot : CreatePostInsert(s)
  \/ \E s \in OneSlot, h \in BadHeaders : UpdatePost(s, h, 1, "hello", "edited")
  \/ \E s \in OneSlot, h \in BadHeaders : DeletePost(s, h, 1)
  \/ \E s \in OneSlot, h \in Headers : GetComments(s, h, 1)
  \/ \E s \in OneSlot, h \in Headers : CreateComment(s, h, 1, "nice")
  \/ \E s \in OneSlot : CreateCommentGate(s)
  \/ \E s \in OneSlot : CreateCommentInsert(s)
  \/ \E s \in OneSlot, h \in BadHeaders : DeleteComment(s, h, 2)

SpecGuard == Init /\ [][NextGuard]_vars

(* --------------------------------------------- the token specification *)
\* the operations that touch an account after its token was issued, and
\* one guarded route, while the clock runs
NextToken ==
  \/ Tick
  \/ \E s \in OneSlot, r \in {"admin", "user"} :
        Register(s, "kim", "kimpass22", "a@x.kr", r)
  \/ \E s \in OneSlot : RegisterInsert(s)
  \/ \E s \in OneSlot, u \in UserIds, p \in Passwords : Login(s, u, p)
  \/ \E s \in OneSlot : ChangePassword(s, "kim", "kimpass22", "rootpass1")
  \/ \E s \in OneSlot : ChangePasswordUpdate(s)
  \/ \E s \in OneSlot : ResetPassword(s, "kim", "A@X.KR")
  \/ \E s \in OneSlot : ResetPasswordUpdate(s)
  \/ \E s \in OneSlot, sent \in BOOLEAN : ResetPasswordMail(s, sent)
  \/ \E s \in OneSlot, h \in Headers, p \in Passwords : DeleteAccount(s, h, "kim", p)
  \/ \E s \in OneSlot : DeleteAccountDelete(s)
  \/ \E s \in OneSlot, h \in Headers : GetAllSchedules(s, h)

SpecToken == Init /\ [][NextToken]_vars

(* ------------------------------------------- the listing specification *)
\* settings of a sheet without and with a teacher account on its roster
PlainSheet ==
  [title |-> "Fall2024", numOfTeachers |-> "1", teacherNames |-> <<"Kim">>,
   teacherUserIds |-> Omitted, dayDates |-> Omitted]

RosterSheet ==
  [title |-> "Spring", numOfTeachers |-> "1", teacherNames |-> <<"Lee">>,
   teacherUserIds |-> Given(<<"lee">>), dayDates |-> Omitted]

\* an admin and a teacher: the admin writes sheets and rosters, both list
NextList ==
  \/ Tick
  \/ \E s \in OneSlot : Register(s, "kim", "kimpass22", "a@x.kr", "admin")
  \/ \E s \in OneSlot : Register(s, "lee", "kimpass22", "a@x.kr", "user")
  \/ \E s \in OneSlot : RegisterInsert(s)
  \/ \E s \in OneSlot, u \in {"kim", "lee"} : Login(s, u, "kimpass22")
  \/ \E s \in OneSlot, h \in Headers : GetAllSchedules(s, h)
  \/ \E s \in OneSlot, h \in Headers : CreateSchedule(s, h, "s1", PlainSheet)
  \/ \E s \in OneSlot, h \in Headers : CreateSchedule(s, h, "s2", RosterSheet)
  \/ \E s \in OneSlot : CreateScheduleTitle(s)
  \/ \E s \in OneSlot : CreateScheduleInsert(s)
  \/ \E s \in OneSlot, h \in Headers, st \in {PlainSheet, RosterSheet} :
        UpdateSchedule(s, h, "s1", st)
  \/ \E s \in OneSlot : UpdateScheduleUpdate(s)

SpecList == Init /\ [][NextList]_vars

(* --------------------------------------------- the title specification *)
\* titles that differ in case, in surrounding blanks, or altogether
TitleInputs == {"Fall2024", "fall2024", " Fall2024 ", "Spring"}

TitleSettings == {[PlainSheet EXCEPT !.title = t] : t \in TitleInputs}

\* one admin creates, retitles and deletes sheets, one request at a time
NextTitle ==
  \/ \E s \in OneSlot : Register(s, "kim", "kimpass22", "a@x.kr", "admin")
  \/ \E s \in OneSlot : RegisterInsert(s)
  \/ \E s \in OneSlot : Login(s, "kim", "kimpass22")
  \/ \E s \in OneSlot, h \in Headers, n \in SheetNames, st \in TitleSettings :
        CreateSchedule(s, h, n, st)
  \/ \E s \in OneSlot : CreateScheduleTitle(s)
  \/ \E s \in OneSlot : CreateScheduleInsert(s)
  \/ \E s \in OneSlot, h \in Headers, n \in SheetNames, st \in TitleSettings :
        UpdateSchedule(s, h, n, st)
  \/ \E s \in OneSlot : UpdateScheduleUpdate(s)
  \/ \E s \in OneSlot, h \in Headers, n \in SheetNames : DeleteSchedule(s, h, n)
  \/ \E s \in OneSlot : DeleteScheduleDelete(s)

SpecTitle == Init /\ [][NextTitle]_vars

(* ---------------------------------------- the sheet race specification *)
\* one admin, overlapping createSchedule and deleteSchedule requests
NextSheetRace ==
  \/ \E s \in OneSlot : Register(s, "kim", "kimpass22", "a@x.kr", "admin")
  \/ \E s \in OneSlot : RegisterInsert(s)
  \/ \E s \in OneSlot : Login(s, "kim", "kimpass22")
  \/ \E s \in Slots, h \in Headers, n \in SheetNames, st \in {PlainSheet, RosterSheet} :
        CreateSchedule(s, h, n, st)
  \/ \E s \in Slots : CreateScheduleTitle(s)
  \/ \E s \in Slots : CreateScheduleInsert(s)
  \/ \E s \in Slots, h \in Headers, n \in SheetNames : DeleteSchedule(s, h, n)
  \/ \E s \in Slots : DeleteScheduleDelete(s)

SpecSheetRace == Init /\ [][NextSheetRace]_vars

(* -------------------------------------------- the field specification *)
\* settings for two teachers that leave out teacherUserIds and carry dayDates
TwoTeacherSheet ==
  [title |-> "Spring", numOfTeachers |-> "2", teacherNames |-> <<"Kim", "Lee">>,
   teacherUserIds |-> Omitted, dayDates |-> Given(<<"mon">>)]

FieldSettings == {PlainSheet, RosterSheet, TwoTeacherSheet}

\* an admin and a teacher write sheets whose settings carry or leave out the
\* optional fields, one request at a time
NextField ==
  \/ \E s \in OneSlot, r \in {"admin", "user"} :
        Register(s, "kim", "kimpass22", "a@x.kr", r)
  \/ \E s \in OneSlot : RegisterInsert(s)
  \/ \E s \in OneSlot, u \in UserIds, p \in Passwords : Login(s, u, p)
  \/ \E s \in OneSlot, h \in Headers, st \in FieldSettings : CreateSchedule(s, h, "s1", st)
  \/ \E s \in OneSlot : CreateScheduleTitle(s)
  \/ \E s \in OneSlot : CreateScheduleInsert(s)
  \/ \E s \in OneSlot, h \in Headers, n \in SheetNames, st \in FieldSettings :
        UpdateSchedule(s, h, n, st)
  \/ \E s \in OneSlot : UpdateScheduleUpdate(s)
  \/ \E s \in OneSlot, h \in Headers, n \in SheetNames : DeleteSchedule(s, h, n)
  \/ \E s \in OneSlot : DeleteScheduleDelete(s)

SpecField == Init /\ [][NextField]_vars

(* --------------------------------------------- the board specification *)
\* the paths under which post 1 and comment 2 can be addressed
PostPaths == {1, -1}
CommentPaths == {2}

\* two admins and the superadmin on the board, one request at a time
NextBoard ==
  \/ \E s \in OneSlot, u \in {"kim", "lee"} : Register(s, u, "kimpass22", "a@x.kr", "admin")
  \/ \E s \in OneSlot : RegisterInsert(s)
  \/ \E s \in OneSlot, u \in {"kim", "lee"} : Login(s, u, "kimpass22")
  \/ \E s \in OneSlot : Login(s, ADMIN_USER_ID, ADMIN_PASSWORD)
  \/ \E s \in OneSlot, h \in Headers : CreatePost(s, h, "hello", "text")
  \/ \E s \in OneSlot : CreatePostAuthor(s)
  \/ \E s \in OneSlot : CreatePostInsert(s)
  \/ \E s \in OneSlot, h \in Headers, p \in PostPaths : UpdatePost(s, h, p, "hello", "edited")
  \/ \E s \in OneSlot : UpdatePostUpdate(s)
  \/ \E s \in OneSlot, h \in Headers, p \in PostPaths : DeletePost(s, h, p)
  \/ \E s \in OneSlot : DeletePostDelete(s)
  \/ \E s \in OneSlot : DeletePostComments(s)
  \/ \E s \in OneSlot, h \in Headers, p \in PostPaths : GetComments(s, h, p)
  \/ \E s \in OneSlot, h \in Headers, p \in PostPaths : CreateComment(s, h, p, "nice")
  \/ \E s \in OneSlot : CreateCommentGate(s)
  \/ \E s \in OneSlot : CreateCommentInsert(s)
  \/ \E s \in OneSlot, h \in Headers, c \in CommentPaths : DeleteComment(s, h, c)
  \/ \E s \in OneSlot : DeleteCommentDelete(s)

SpecBoard == Init /\ [][NextBoard]_vars

\* the post ids tried on the board of notices
NoticePaths == {1, 2}

\* the headers that carry a token login has issued, expired ones included
IssuedHeaders == {Bearer(t) : t \in issued}

\* an admin and the superadmin write posts and comments while time passes
NextGate ==
  \/ Tick
  \/ \E s \in OneSlot : Register(s, "kim", "kimpass22", "a@x.kr", "admin")
  \/ \E s \in OneSlot : RegisterInsert(s)
  \/ \E s \in OneSlot : Login(s, "kim", "kimpass22")
  \/ \E s \in OneSlot : Login(s, ADMIN_USER_ID, ADMIN_PASSWORD)
  \/ \E s \in OneSlot, h \in IssuedHeaders, t \in {"hello", ""} : CreatePost(s, h, t, "text")
  \/ \E s \in OneSlot : CreatePostAuthor(s)
  \/ \E s \in OneSlot : CreatePostInsert(s)
  \/ \E s \in OneSlot, h \in IssuedHeaders : CreateComment(s, h, 1, "nice")
  \/ \E s \in OneSlot : CreateCommentGate(s)
  \/ \E s \in OneSlot : CreateCommentInsert(s)

SpecGate == Init /\ [][NextGate]_vars

\* two admins write posts and comments while time passes
NextActors ==
  \/ Tick
  \/ \E s \in OneSlot, u \in {"kim", "lee"} : Register(s, u, "kimpass22", "a@x.kr", "admin")
  \/ \E s \in OneSlot : RegisterInsert(s)
  \/ \E s \in OneSlot, u \in {"kim", "lee"} : Login(s, u, "kimpass22")
  \/ \E s \in OneSlot, h \in IssuedHeaders : CreatePost(s, h, "hello", "text")
  \/ \E s \in OneSlot : CreatePostAuthor(s)
  \/ \E s \in OneSlot : CreatePostInsert(s)
  \/ \E s \in OneSlot, h \in IssuedHeaders : CreateComment(s, h, 1, "nice")
  \/ \E s \in OneSlot : CreateCommentGate(s)
  \/ \E s \in OneSlot : CreateCommentInsert(s)

SpecActors == Init /\ [][NextActors]_vars

\* createPost requests of one admin overlap while time passes
NextPostRace ==
  \/ Tick
  \/ \E s \in OneSlot : Register(s, "kim", "kimpass22", "a@x.kr", "admin")
  \/ \E s \in OneSlot : RegisterInsert(s)
  \/ \E s \in OneSlot : Login(s, "kim", "kimpass22")
  \/ \E s \in Slots, h \in IssuedHeaders : CreatePost(s, h, "hello", "text")
  \/ \E s \in Slots : CreatePostAuthor(s)
  \/ \E s \in Slots : CreatePostInsert(s)

SpecPostRace == Init /\ [][NextPostRace]_vars

\* an admin and the superadmin post and comment, two requests at a time
NextNotice ==
  \/ \E s \in OneSlot : Register(s, "kim", "kimpass22", "a@x.kr", "admin")
  \/ \E s \in OneSlot : RegisterInsert(s)
  \/ \E s \in OneSlot : Login(s, "kim", "kimpass22")
  \/ \E s \in OneSlot : Login(s, ADMIN_USER_ID, ADMIN_PASSWORD)
  \/ \E s \in Slots, h \in IssuedHeaders : CreatePost(s, h, "hello", "text")
  \/ \E s \in Slots : CreatePostAuthor(s)
  \/ \E s \in Slots : CreatePostInsert(s)
  \/ \E s \in Slots, h \in IssuedHeaders, p \in NoticePaths :
        UpdatePost(s, h, p, "hello", "edited")
  \/ \E s \in Slots : UpdatePostUpdate(s)
  \/ \E s \in Slots, h \in IssuedHeaders, p \in NoticePaths : CreateComment(s, h, p, "nice")
  \/ \E s \in Slots : CreateCommentGate(s)
  \/ \E s \in Slots : CreateCommentInsert(s)

SpecNotice == Init /\ [][NextNotice]_vars

\* an admin and the superadmin post, edit, read and comment, one request at
\* a time
NextPostFields ==
  \/ \E s \in OneSlot : Register(s, "kim", "kimpass22", "a@x.kr", "admin")
  \/ \E s \in OneSlot : RegisterInsert(s)
  \/ \E s \in OneSlot : Login(s, "kim", "kimpass22")
  \/ \E s \in OneSlot : Login(s, ADMIN_USER_ID, ADMIN_PASSWORD)
  \/ \E s \in OneSlot, h \in IssuedHeaders : CreatePost(s, h, "hello", "text")
  \/ \E s \in OneSlot : CreatePostAuthor(s)
  \/ \E s \in OneSlot : CreatePostInsert(s)
  \/ \E s \in OneSlot, h \in IssuedHeaders, p \in NoticePaths :
        UpdatePost(s, h, p, "hello", "edited")
  \/ \E s \in OneSlot : UpdatePostUpdate(s)
  \/ \E s \in OneSlot, h \in IssuedHeaders, p \in NoticePaths : GetPostById(s, h, p)
  \/ \E s \in OneSlot : GetPostByIdInc(s)
  \/ \E s \in OneSlot : GetPostByIdRead(s)
  \/ \E s \in OneSlot, h \in IssuedHeaders, p \in NoticePaths : CreateComment(s, h, p, "nice")
  \/ \E s \in OneSlot : CreateCommentGate(s)
  \/ \E s \in OneSlot : CreateCommentInsert(s)
  \/ \E s \in OneSlot, h \in IssuedHeaders : DeleteComment(s, h, 2)
  \/ \E s \in OneSlot : DeleteCommentDelete(s)

SpecPostFields == Init /\ [][NextPostFields]_vars

\* the ids tried on getPostById: a stored post, the same id in upper case,
\* an id no post has, and a string that is no ObjectId
ViewPaths == {1, -1, 2, 0}

\* an admin posts; the admin and a teacher read posts, two requests at a time
NextViews ==
  \/ \E s \in OneSlot : Register(s, "kim", "kimpass22", "a@x.kr", "admin")
  \/ \E s \in OneSlot : Register(s, "lee", "kimpass22", "a@x.kr", "user")
  \/ \E s \in OneSlot : RegisterInsert(s)
  \/ \E s \in OneSlot, u \in {"kim", "lee"} : Login(s, u, "kimpass22")
  \/ \E s \in OneSlot, h \in IssuedHeaders : CreatePost(s, h, "hello", "text")
  \/ \E s \in OneSlot : CreatePostAuthor(s)
  \/ \E s \in OneSlot : CreatePostInsert(s)
  \/ \E s \in Slots, h \in IssuedHeaders, p \in ViewPaths : GetPostById(s, h, p)
  \/ \E s \in Slots : GetPostByIdInc(s)
  \/ \E s \in Slots : GetPostByIdRead(s)

SpecViews == Init /\ [][NextViews]_vars

\* an admin and a teacher use the board, one request at a time
NextUserBoard ==
  \/ \E s \in OneSlot : Register(s, "kim", "kimpass22", "a@x.kr", "admin")
  \/ \E s \in OneSlot : Register(s, "lee", "kimpass22", "a@x.kr", "user")
  \/ \E s \in OneSlot : RegisterInsert(s)
  \/ \E s \in OneSlot, u \in {"kim", "lee"} : Login(s, u, "kimpass22")
  \/ \E s \in OneSlot, h \in IssuedHeaders : CreatePost(s, h, "hello", "text")
  \/ \E s \in OneSlot : CreatePostAuthor(s)
  \/ \E s \in OneSlot : CreatePostInsert(s)
  \/ \E s \in OneSlot, h \in IssuedHeaders : UpdatePost(s, h, 1, "hello", "edited")
  \/ \E s \in OneSlot : UpdatePostUpdate(s)
  \/ \E s \in OneSlot, h \in IssuedHeaders : DeletePost(s, h, 1)
  \/ \E s \in OneSlot : DeletePostDelete(s)
  \/ \E s \in OneSlot : DeletePostComments(s)
  \/ \E s \in OneSlot, h \in IssuedHeaders : CreateComment(s, h, 1, "nice")
  \/ \E s \in OneSlot : CreateCommentGate(s)
  \/ \E s \in OneSlot : CreateCommentInsert(s)

SpecUserBoard == Init /\ [][NextUserBoard]_vars

\* the query strings of getPosts: page, limit and search, "" when absent
Pages == {"", "2"}
Limits == {"", "1"}
Searches == {"", "HEL", "rules"}

\* an admin and the superadmin post while time passes, the superadmin under
\* the title "rules" and the admin under "hello", and the list is read
NextPosts ==
  \/ Tick
  \/ \E s \in OneSlot : Register(s, "kim", "kimpass22", "a@x.kr", "admin")
  \/ \E s \in OneSlot : RegisterInsert(s)
  \/ \E s \in OneSlot : Login(s, "kim", "kimpass22")
  \/ \E s \in OneSlot : Login(s, ADMIN_USER_ID, ADMIN_PASSWORD)
  \/ \E s \in OneSlot, h \in IssuedHeaders :
        CreatePost(s, h, IF h.token.role = "superadmin" THEN "rules" ELSE "hello", "text")
  \/ \E s \in OneSlot : CreatePostAuthor(s)
  \/ \E s \in OneSlot : CreatePostInsert(s)
  \/ \E s \in OneSlot, h \in IssuedHeaders, p \in Pages, l \in Limits, q \in Searches :
        GetPosts(s, h, p, l, q)
  \/ \E s \in OneSlot : GetPostsCount(s)
  \/ \E s \in OneSlot : GetPostsFind(s)

SpecPosts == Init /\ [][NextPosts]_vars

\* the teacherId and teachers fields sent to the roster routes
TeacherIds == {"lee", "kim", "zed", ""}
Rosters == {<<>>, <<"lee">>}

\* an admin, a second account that is admin or teacher, and the superadmin
\* on the roster routes
NextRoster ==
  \/ \E s \in OneSlot : Register(s, "kim", "kimpass22", "a@x.kr", "admin")
  \/ \E s \in OneSlot, r \in {"admin", "user"} :
        Register(s, "lee", "kimpass22", "a@x.kr", r)
  \/ \E s \in OneSlot : RegisterInsert(s)
  \/ \E s \in OneSlot, u \in {"kim", "lee"} : Login(s, u, "kimpass22")
  \/ \E s \in OneSlot : Login(s, ADMIN_USER_ID, ADMIN_PASSWORD)
  \/ \E s \in OneSlot, h \in IssuedHeaders, t \in TeacherIds : VerifyTeacher(s, h, t)
  \/ \E s \in OneSlot, h \in IssuedHeaders, t \in Rosters :
        SaveRegisteredTeachers(s, h, t)
  \/ \E s \in OneSlot, h \in IssuedHeaders : GetRegisteredTeachers(s, h)

SpecRoster == Init /\ [][NextRoster]_vars

\* the email field sent to reset-password
ResetEmails == {"A@X.KR", "b@x.kr"}

\* resetPassword on a registered admin and on the account stored at server
\* start; every login sends the password its account was created with
NextReset ==
  \/ \E s \in OneSlot : Register(s, "kim", "kimpass22", "a@x.kr", "admin")
  \/ \E s \in OneSlot : RegisterInsert(s)
  \/ \E s \in OneSlot : Login(s, "kim", "kimpass22")
  \/ \E s \in OneSlot : Login(s, ADMIN_USER_ID, ADMIN_PASSWORD)
  \/ \E s \in OneSlot, u \in ReqUserIds, e \in ResetEmails : ResetPassword(s, u, e)
  \/ \E s \in OneSlot : ResetPasswordUpdate(s)
  \/ \E s \in OneSlot, sent \in BOOLEAN : ResetPasswordMail(s, sent)

SpecReset == Init /\ [][NextReset]_vars

\* changePassword with every request body, on a registered account and on
\* the account stored at server start
NextPassword ==
  \/ \E s \in OneSlot, p \in Passwords : Register(s, "kim", p, "a@x.kr", "admin")
  \/ \E s \in OneSlot : RegisterInsert(s)
  \/ \E s \in OneSlot, u \in ReqUserIds, p \in ReqPasswords, n \in ReqPasswords :
        ChangePassword(s, u, p, n)
  \/ \E s \in OneSlot : ChangePasswordUpdate(s)
  \/ \E s \in OneSlot, u \in UserIds, p \in Passwords : Login(s, u, p)

SpecPassword == Init /\ [][NextPassword]_vars

(* ------------------------------------------------------- store failures *)
\* the positions at which a suspended handler awaits a store call
StoreCalls ==
  {"register_insert", "createPost_author", "createPost_insert",
   "createSchedule_title", "createSchedule_insert", "resetPassword_update"}

\* the handler at its catch (error) block
Caught(op, cred, actor, arg) ==
  [pc |-> "catch", op |-> op, cred |-> cred, userId |-> actor.userId,
   role |-> actor.role, arg |-> arg]

\* the store call a suspended handler awaits rejects: control passes to the
\* catch block of the handler
Rejects(s) ==
  /\ req[s].pc \in StoreCalls
  /\ req' = [req EXCEPT ![s] =
               IF req[s].op = "createPost"
               THEN Caught("createPost", req[s].cred, req[s], 0)
               ELSE IF req[s].op = "createSchedule"
               THEN Caught("createSchedule", req[s].cred, req[s], req[s].arg)
               ELSE Caught(req[s].op, FALSE, Anonymous, req[s].arg)]
  /\ UNCHANGED <<now, users, schedules, board, issued, resp>>

\* a catch block that only logs the error
Catch_OnlyLogs(s) ==
  /\ req[s].pc = "catch"
  /\ req' = [req EXCEPT ![s] = Idle]
  /\ UNCHANGED <<now, users, schedules, board, issued, resp>>

\* catch (error) { res.status(500).json({ success: false, ... }) }
Catch(s) ==
  /\ req[s].pc = "catch"
  /\ Finish(s, Plain(req[s].op, 500, req[s].cred, req[s], req[s].arg))
  /\ UNCHANGED <<now, users, schedules, board, issued>>

\* createPost whose first store call rejects
CreatePostRejected(s, hdr, title, content) ==
  /\ req[s].pc = "idle"
  /\ LET d == authenticate(hdr, now)
     IN /\ boardGate(d) = 0
        /\ title # "" /\ content # ""
        /\ Await(s, Caught("createPost", Genuine(hdr, now), d, 0))
  /\ UNCHANGED <<now, users, schedules, board, issued>>

\* createSchedule whose first findOne rejects
CreateScheduleRejected(s, hdr, sheetName) ==
  /\ req[s].pc = "idle"
  /\ LET d == authenticate(hdr, now)
     IN /\ d.ok /\ d.userId # "" /\ d.role = "admin"
        /\ sheetName # ""
        /\ Await(s, Caught("createSchedule", Genuine(hdr, now), d, sheetName))
  /\ UNCHANGED <<now, users, schedules, board, issued>>

\* resetPassword whose findOne rejects
ResetPasswordRejected(s, userId, email) ==
  /\ req[s].pc = "idle"
  /\ userId # "" /\ email # ""
  /\ Await(s, Caught("resetPassword", FALSE, Anonymous, userId))
  /\ UNCHANGED <<now, users, schedules, board, issued>>

\* the steps a suspended handler takes when its awaited call settles
Settle(s) ==
  \/ RegisterInsert(s)
  \/ CreatePostAuthor(s)
  \/ CreatePostInsert(s)
  \/ CreateScheduleTitle(s)
  \/ CreateScheduleInsert(s)
  \/ ResetPasswordUpdate(s)
  \/ \E sent \in BOOLEAN : ResetPasswordMail(s, sent)
  \/ Rejects(s)
  \/ Catch(s)

\* createPost, createSchedule and resetPassword with store calls that may
\* reject and an email that may fail to send
NextFailure ==
  \/ \E s \in OneSlot : Register(s, "kim", "kimpass22", "a@x.kr", "admin")
  \/ \E s \in OneSlot : Login(s, "kim", "kimpass22")
  \/ \E s \in OneSlot : Login(s, ADMIN_USER_ID, ADMIN_PASSWORD)
  \/ \E s \in OneSlot, h \in IssuedHeaders, t \in {"hello", ""} :
        CreatePost(s, h, t, "text")
  \/ \E s \in OneSlot, h \in IssuedHeaders : CreatePostRejected(s, h, "hello", "text")
  \/ \E s \in OneSlot, h \in IssuedHeaders, n \in {"s1", ""} :
        CreateSchedule(s, h, n, PlainSheet)
  \/ \E s \in OneSlot, h \in IssuedHeaders : CreateScheduleRejected(s, h, "s1")
  \/ \E s \in OneSlot, e \in ResetEmails : ResetPassword(s, "kim", e)
  \/ \E s \in OneSlot : ResetPasswordRejected(s, "kim", "A@X.KR")
  \/ \E s \in OneSlot : Settle(s)

SpecFailure == Init /\ [][NextFailure]_vars

\* the event loop resumes every handler whose awaited call has settled
SpecFailureFair == SpecFailure /\ \A s \in OneSlot : WF_vars(Settle(s))

\* one admin creating and deleting posts, one request at a time, while the
\* clock stands still: any two requests are less than the cooldown apart,
\* and nextId - 1 is the number of posts accepted so far
NextRepost ==
  \/ \E s \in OneSlot : Register(s, "kim", "kimpass22", "a@x.kr", "admin")
  \/ \E s \in OneSlot : RegisterInsert(s)
  \/ \E s \in OneSlot : Login(s, "kim", "kimpass22")
  \/ \E s \in OneSlot, h \in IssuedHeaders, t \in {"hello", ""} :
        CreatePost(s, h, t, "text")
  \/ \E s \in OneSlot : CreatePostAuthor(s)
  \/ \E s \in OneSlot : CreatePostInsert(s)
  \/ \E s \in OneSlot, h \in IssuedHeaders, p \in ViewPaths : GetPostById(s, h, p)
  \/ \E s \in OneSlot, h \in IssuedHeaders, p \in NoticePaths : DeletePost(s, h, p)
  \/ \E s \in OneSlot : DeletePostDelete(s)
  \/ \E s \in OneSlot : DeletePostComments(s)

SpecRepost == Init /\ [][NextRepost]_vars

\* createComment and deletePost on the admin's first post, requests
\* overlapping
NextOrphan ==
  \/ \E s \in OneSlot : Register(s, "kim", "kimpass22", "a@x.kr", "admin")
  \/ \E s \in OneSlot : RegisterInsert(s)
  \/ \E s \in OneSlot : Login(s, "kim", "kimpass22")
  \/ \E s \in OneSlot, h \in IssuedHeaders : CreatePost(s, h, "hello", "text")
  \/ \E s \in OneSlot : CreatePostAuthor(s)
  \/ \E s \in OneSlot : CreatePostInsert(s)
  \/ \E s \in Slots, h \in IssuedHeaders : CreateComment(s, h, 1, "nice")
  \/ \E s \in Slots : CreateCommentGate(s)
  \/ \E s \in Slots : CreateCommentInsert(s)
  \/ \E s \in Slots, h \in IssuedHeaders : DeletePost(s, h, 1)
  \/ \E s \in Slots : DeletePostDelete(s)
  \/ \E s \in Slots : DeletePostComments(s)

SpecOrphan == Init /\ [][NextOrphan]_vars

\* updateSchedule requests on one sheet of one admin, overlapping: some
\* supply teacherUserIds, some leave it out
NextLostUpdate ==
  \/ \E s \in OneSlot : Register(s, "kim", "kimpass22", "a@x.kr", "admin")
  \/ \E s \in OneSlot : RegisterInsert(s)
  \/ \E s \in OneSlot : Login(s, "kim", "kimpass22")
  \/ \E s \in OneSlot, h \in IssuedHeaders : CreateSchedule(s, h, "s1", PlainSheet)
  \/ \E s \in OneSlot : CreateScheduleTitle(s)
  \/ \E s \in OneSlot : CreateScheduleInsert(s)
  \/ \E s \in Slots, h \in IssuedHeaders, st \in {PlainSheet, RosterSheet} :
        UpdateSchedule(s, h, "s1", st)
  \/ \E s \in Slots : UpdateScheduleUpdate(s)

SpecLostUpdate == Init /\ [][NextLostUpdate]_vars

\* an admin account that creates a sheet and is deleted, and a later account
\* registered under the same userId. The two accounts are told apart by
\* their passwords: the first one (kimpass22) registers while no sheet
\* exists and is the only one that creates sheets, so every sheet stored
\* while the later one (rootpass1) is stored was created by a deleted account
NextReuse ==
  \/ \E s \in OneSlot :
        /\ schedules = <<>>
        /\ Register(s, "kim", "kimpass22", "a@x.kr", "admin")
  \/ \E s \in OneSlot : Register(s, "kim", "rootpass1", "a@x.kr", "admin")
  \/ \E s \in OneSlot : RegisterInsert(s)
  \/ \E s \in OneSlot, p \in Passwords : Login(s, "kim", p)
  \/ \E s \in OneSlot, h \in IssuedHeaders :
        /\ findUser(users, "kim") # 0
        /\ users[findUser(users, "kim")].password = Hash("kimpass22")
        /\ CreateSchedule(s, h, "s1", PlainSheet)
  \/ \E s \in OneSlot : CreateScheduleTitle(s)
  \/ \E s \in OneSlot : CreateScheduleInsert(s)
  \/ \E s \in OneSlot, h \in IssuedHeaders, p \in Passwords :
        DeleteAccount(s, h, "kim", p)
  \/ \E s \in OneSlot : DeleteAccountDelete(s)
  \/ \E s \in OneSlot, h \in IssuedHeaders : GetAllSchedules(s, h)
  \/ \E s \in OneSlot, h \in IssuedHeaders : UpdateSchedule(s, h, "s1", RosterSheet)
  \/ \E s \in OneSlot : UpdateScheduleUpdate(s)
  \/ \E s \in OneSlot, h \in IssuedHeaders : DeleteSchedule(s, h, "s1")
  \/ \E s \in OneSlot : DeleteScheduleDelete(s)

SpecReuse == Init /\ [][NextReuse]_vars

(* =============================================================== claims *)
\* some stored account has this userId
HasAccount(userId) == \E i \in 1..Len(users) : users[i].userId = userId

\* the first stored account with this userId
AccountOf(userId) ==
  users[CHOOSE i \in 1..Len(users) :
          /\ users[i].userId = userId
          /\ \A j \in 1..(i - 1) : users[j].userId # userId]

\* C1: whenever login succeeds, the role that validating the issued token
\* returns equals the role stored in the account store for that userId,
\* the userId seeded from ADMIN_USER_ID included.
C1_LoginRoleMatchesStoredRole ==
  (resp.op = "login" /\ resp.status = 200 /\ HasAccount(resp.arg))
    => /\ verifyToken(resp.token, now).ok
       /\ verifyToken(resp.token, now).role = AccountOf(resp.arg).role

\* the operations of the routes behind authenticate
GuardedOps ==
  {"getAllSchedules", "createSchedule", "updateSchedule", "deleteSchedule",
   "getPosts", "getPostById", "createPost", "updatePost", "deletePost",
   "getComments", "createComment", "deleteComment",
   "verifyTeacher", "saveRegisteredTeachers", "getRegisteredTeachers",
   "deleteAccount"}

\* C2: on every route behind authenticate, a request whose token is missing,
\* malformed, expired or wrongly signed is answered 401 at once, no handler
\* step is started for it and no collection changes.
C2_BadTokenRejected ==
  [][/\ \A s \in Slots :
          (req[s].pc = "idle" /\ req'[s].pc # "idle" /\ req'[s].op \in GuardedOps)
            => req'[s].cred
     /\ (/\ req' = req /\ now' = now
         /\ resp'.op \in GuardedOps /\ ~resp'.cred)
          => /\ resp'.status = 401
             /\ UNCHANGED <<users, schedules, posts, comments>>]_vars

\* C2 witness: deletePost for a stored post was answered 401 when every
\* issued token had expired
C2_Witness ==
  /\ resp.op = "deletePost" /\ resp.status = 401 /\ ~resp.cred
  /\ \E i \in 1..Len(posts) : posts[i].id = resp.arg
  /\ issued # {}
  /\ \A t \in issued : t.exp <= now

\* authenticate accepts this token now
Accepts(token) == authenticate(Bearer(token), now).ok

\* C4: a token that authenticate accepts stays accepted until it expires,
\* whatever operation runs in between, and a guarded route never answers
\* 401 to an issued token inside its validity window.
C4_TokenAcceptedUntilExpiry ==
  [][/\ \A token \in issued :
          (Accepts(token) /\ now' < token.exp) => Accepts(token)'
     /\ (resp' # resp /\ resp'.op = "getAllSchedules" /\ resp'.cred)
          => resp'.status # 401]_vars

\* C4 witness: after time has passed and the account was deleted, the
\* token of the deleted account was accepted on a guarded route
C4_Witness ==
  /\ resp.op = "getAllSchedules" /\ resp.status = 200 /\ resp.cred
  /\ resp.role # "superadmin"
  /\ ~HasAccount(resp.userId)
  /\ now > 0

\* a register request that passes the field validation
WellFormedRegister(body) ==
  /\ body.userId # "" /\ body.email # ""
  /\ body.password \in Passwords

\* C5: register with a userId that already exists in the account store is
\* answered 409 and leaves the account store unchanged; the handler never
\* goes on to insert.
C5_DuplicateRegisterRejected ==
  [][/\ \A s \in Slots :
          (req[s].pc = "idle" /\ req'[s].pc = "register_insert")
            => ~HasAccount(req'[s].newUser.userId)
     /\ (/\ req' = req /\ resp' # resp /\ resp'.op = "register"
         /\ WellFormedRegister(resp'.arg) /\ HasAccount(resp'.arg.userId))
          => (resp'.status = 409 /\ users' = users)]_vars

\* C5 witness: a well-formed register for a stored userId was answered 409
\* and the stored account is not the one the request asked for
C5_Witness ==
  /\ resp.op = "register" /\ resp.status = 409
  /\ WellFormedRegister(resp.arg)
  /\ HasAccount(resp.arg.userId)
  /\ AccountOf(resp.arg.userId).password # Hash(resp.arg.password)

\* C6: in every reachable state the account store holds at most one account
\* per userId, for every interleaving of register and createAdmin requests.
C6_UserIdUnique ==
  \A i, j \in 1..Len(users) : users[i].userId = users[j].userId => i = j

\* C7: the account store never holds an account whose userId is the
\* configured superadmin id, nor an account whose role is superadmin.
C7_SuperadminNeverPersisted ==
  \A i \in 1..Len(users) :
    users[i].userId # ADMIN_USER_ID /\ users[i].role # "superadmin"
ScheduleWrites == {"createSchedule", "updateSchedule", "deleteSchedule"}

\* C3: whenever a schedule write of a non-superadmin actor is allowed or
\* denied on the basis of a role, that role is the role stored for the
\* actor's userId at the time of the request.
C3_DecisionUsesStoredRole ==
  (/\ resp.op \in ScheduleWrites /\ resp.cred
   /\ resp.role # "superadmin" /\ HasAccount(resp.userId))
    => AccountOf(resp.userId).role = resp.role

\* C8: createSchedule and deleteSchedule change the schedule store only for
\* an actor whose role is admin, every other role is answered 403;
\* updateSchedule never changes the store for role user.
C8_ScheduleWriteRoleGate ==
  [][/\ schedules' # schedules
          => \E s \in Slots :
               /\ req[s].pc # "idle" /\ req'[s].pc = "idle"
               /\ \/ req[s].op \in {"createSchedule", "deleteSchedule"}
                       /\ req[s].role = "admin"
                  \/ req[s].op = "updateSchedule" /\ req[s].role # "user"
     /\ (/\ resp' # resp /\ resp'.cred
         /\ resp'.op \in {"createSchedule", "deleteSchedule"}
         /\ resp'.role # "admin")
          => (resp'.status = 403 /\ schedules' = schedules)
     /\ (resp' # resp /\ resp'.cred /\ resp'.op = "updateSchedule" /\ resp'.role = "user")
          => (resp'.status = 403 /\ schedules' = schedules)]_vars

\* C8 witness: a superadmin was refused createSchedule while sheets exist
C8_Witness ==
  /\ resp.op = "createSchedule" /\ resp.role = "superadmin"
  /\ resp.status = 403 /\ Len(schedules) > 0

\* the sheets that do not belong to this owner
SheetsOfOthers(ss, userId) == SelectSeq(ss, LAMBDA sheet : sheet.userId # userId)

\* C9: a schedule request made with actor A's token leaves every sheet
\* whose owner id differs from A's id unchanged, and nothing else changes
\* the schedule store.
C9_TenantIsolation ==
  [][schedules' # schedules
       => \E s \in Slots :
            /\ req[s].pc # "idle" /\ req'[s].pc = "idle"
            /\ req[s].op \in ScheduleWrites
            /\ SheetsOfOthers(schedules', req[s].userId)
                 = SheetsOfOthers(schedules, req[s].userId)]_vars

\* C9 witness: an update by its owner went through while another owner
\* holds a sheet of the same name
C9_Witness ==
  /\ resp.op = "updateSchedule" /\ resp.status = 200
  /\ \E i, j \in 1..Len(schedules) :
       /\ schedules[i].userId = resp.userId
       /\ schedules[j].userId # resp.userId
       /\ schedules[i].sheetName = resp.arg
       /\ schedules[j].sheetName = resp.arg

\* C10: an updateSchedule request with a superadmin token that names an
\* existing sheet of any admin succeeds.
C10_SuperadminUpdatesAnySheet ==
  (/\ resp.op = "updateSchedule" /\ resp.cred /\ resp.role = "superadmin"
   /\ \E i \in 1..Len(schedules) : schedules[i].sheetName = resp.arg)
    => resp.status = 200

\* the stored sheets that getAllSchedules owes this actor
SheetsDue(userId, role) ==
  {i \in 1..Len(schedules) :
     IF role = "admin" THEN schedules[i].userId = userId
     ELSE \E k \in 1..Len(schedules[i].teacherUserIds) :
            schedules[i].teacherUserIds[k] = userId}

\* C11: getAllSchedules returns exactly the sheets owned by the actor when
\* the role is admin and exactly the sheets whose teacherUserIds contains the
\* actor's id otherwise, in ascending creation order.
C11_ListingIsExact ==
  [][(resp' # resp /\ resp'.op = "getAllSchedules" /\ resp'.status = 200)
       => LET data == resp'.arg
              due == SheetsDue(resp'.userId, resp'.role)
          IN /\ Len(data) = Cardinality(due)
             /\ \A k \in 1..Len(data) : \E i \in due : data[k] = schedules[i]
             /\ \A i \in due : \E k \in 1..Len(data) : data[k] = schedules[i]
             /\ \A k, l \in 1..Len(data) :
                  k < l => data[k].createdAt <= data[l].createdAt]_vars

\* C11 witness: a teacher was shown the sheet that lists them and not the
\* other stored sheet
C11_Witness ==
  /\ resp.op = "getAllSchedules" /\ resp.status = 200 /\ resp.role = "user"
  /\ Len(resp.arg) = 1 /\ Len(schedules) = 2
  /\ \E i \in 1..Len(schedules) :
       /\ schedules[i] # resp.arg[1]
       /\ \A k \in 1..Len(schedules[i].teacherUserIds) :
            schedules[i].teacherUserIds[k] # resp.userId

\* two titles are equal when case is ignored
SameTitle(a, b) == toLowerCase(a) = toLowerCase(b)

\* C12: createSchedule by an admin who already owns a sheet with the same
\* sheetName, or a sheet whose title equals the new title ignoring case, is
\* answered 409 and leaves the schedule store unchanged.
C12_DuplicateSheetRejected ==
  [][/\ (/\ req' = req /\ resp' # resp /\ resp'.op = "createSchedule"
         /\ resp'.cred /\ resp'.role = "admin"
         /\ \E i \in 1..Len(schedules) :
              /\ schedules[i].userId = resp'.userId
              /\ schedules[i].sheetName = resp'.arg)
          => (resp'.status = 409 /\ schedules' = schedules)
     /\ \A s \in Slots :
          (/\ req[s].pc = "createSchedule_title"
           /\ req'[s] # req[s]
           /\ \E i \in 1..Len(schedules) :
                /\ schedules[i].userId = req[s].userId
                /\ SameTitle(schedules[i].title, req[s].settings.title))
            => /\ req'[s].pc = "idle"
               /\ resp'.status = 409
               /\ schedules' = schedules]_vars

\* C13: no owner has two sheets whose titles are equal ignoring case.
C13_TitleUniquePerOwner ==
  \A i, j \in 1..Len(schedules) :
    (/\ i # j
     /\ schedules[i].userId = schedules[j].userId)
      => ~SameTitle(schedules[i].title, schedules[j].title)

\* C14: no owner has two sheets with the same sheetName, also when two
\* createSchedule requests for the same sheetName overlap and both pass the
\* existence check before either inserts.
C14_SheetNameUniquePerOwner ==
  \A i, j \in 1..Len(schedules) :
    (/\ schedules[i].userId = schedules[j].userId
     /\ schedules[i].sheetName = schedules[j].sheetName)
      => i = j

\* C14 witness: a createSchedule that had passed both lookups was refused
\* by the insert because the other request had inserted the sheetName first
C14_Witness ==
  /\ resp.op = "createSchedule" /\ resp.status = 500
  /\ \E i \in 1..Len(schedules) :
       /\ schedules[i].userId = resp.userId
       /\ schedules[i].sheetName = resp.arg

\* C15: for every stored sheet teacherUserIds has the same length as
\* teacherNames.
C15_RosterAlignedWithNames ==
  \A i \in 1..Len(schedules) :
    Len(schedules[i].teacherUserIds) = Len(schedules[i].teacherNames)

\* the stored sheet has this owner and sheetName
IsSheet(i, userId, sheetName) ==
  schedules[i].userId = userId /\ schedules[i].sheetName = sheetName

\* C16: an updateSchedule whose settings omit teacherUserIds (dayDates) leaves
\* the stored teacherUserIds (dayDates) of the sheet as they were and replaces
\* the other mutable fields with the settings of the request.
C16_OmittedFieldsPreserved ==
  [][\A s \in Slots :
       (req[s].pc = "updateSchedule_update" /\ req'[s].pc = "idle")
         => /\ Len(schedules') = Len(schedules)
            /\ \A i \in 1..Len(schedules) :
                 IsSheet(i, req[s].userId, req[s].arg)
                   => LET st == req[s].settings
                      IN /\ schedules'[i].title = st.title
                         /\ schedules'[i].numOfTeachers = st.numOfTeachers
                         /\ schedules'[i].teacherNames = st.teacherNames
                         /\ ~st.teacherUserIds.given
                              => schedules'[i].teacherUserIds = schedules[i].teacherUserIds
                         /\ ~st.dayDates.given
                              => schedules'[i].dayDates = schedules[i].dayDates]_vars

\* C16 witness: an update that left out both optional fields retitled a
\* sheet and kept the roster and the dates stored by earlier updates
C16_Witness ==
  /\ resp.op = "updateSchedule" /\ resp.status = 200
  /\ \E i \in 1..Len(schedules) :
       /\ IsSheet(i, resp.userId, resp.arg)
       /\ schedules[i].title = PlainSheet.title
       /\ schedules[i].teacherUserIds = <<"lee">>
       /\ schedules[i].dayDates = <<"mon">>

\* the request passed the role check of its route
PassesRoleGate(op, role) ==
  \/ op = "updateSchedule" /\ role # "user"
  \/ op = "deleteSchedule" /\ role = "admin"

\* C17: updateSchedule and deleteSchedule by an actor allowed on the route,
\* for an (actor id, sheetName) pair with no matching sheet, answer 404 and
\* leave the schedule store unchanged; no write step is started for them
\* and an update never adds a sheet.
C17_AbsentSheetNotFound ==
  [][/\ (/\ req' = req /\ resp' # resp /\ resp'.cred
         /\ resp'.op \in {"updateSchedule", "deleteSchedule"}
         /\ PassesRoleGate(resp'.op, resp'.role)
         /\ ~\E i \in 1..Len(schedules) : IsSheet(i, resp'.userId, resp'.arg))
          => (resp'.status = 404 /\ schedules' = schedules)
     /\ \A s \in Slots :
          (/\ req[s].pc = "idle"
           /\ req'[s].pc \in {"updateSchedule_update", "deleteSchedule_delete"})
            => \E i \in 1..Len(schedules) : IsSheet(i, req'[s].userId, req'[s].arg)
     /\ \A s \in Slots :
          (req[s].pc = "updateSchedule_update" /\ req'[s].pc = "idle")
            => Len(schedules') = Len(schedules)]_vars

\* C17 witness: an admin who owns a sheet was answered 404 on deleting
\* another sheetName
C17_Witness ==
  /\ resp.op = "deleteSchedule" /\ resp.status = 404 /\ resp.cred
  /\ resp.role = "admin"
  /\ \E i \in 1..Len(schedules) :
       schedules[i].userId = resp.userId /\ schedules[i].sheetName # resp.arg

\* the stored post (comment) with this id, as a set of at most one index
PostAt(id) == {i \in 1..Len(posts) : posts[i].id = id}
CommentAt(id) == {i \in 1..Len(comments) : comments[i].id = id}

C19_OnlyAuthorOrSuperadminDeletes ==
  [][/\ \A s \in Slots :
          (req[s].pc = "idle" /\ req'[s].pc = "deletePost_delete")
            => \E i \in PostAt(ObjectId(req'[s].arg)) :
                 posts[i].authorId = req'[s].userId \/ req'[s].role = "superadmin"
     /\ \A s \in Slots :
          (req[s].pc = "idle" /\ req'[s].pc = "deleteComment_delete")
            => \E i \in CommentAt(ObjectId(req'[s].arg)) :
                 comments[i].authorId = req'[s].userId \/ req'[s].role = "superadmin"
     /\ \A i \in 1..Len(posts) :
          (~\E k \in 1..Len(posts') : posts'[k].id = posts[i].id)
            => \E s \in Slots :
                 /\ req[s].pc = "deletePost_delete"
                 /\ ObjectId(req[s].arg) = posts[i].id
     /\ \A i \in 1..Len(comments) :
          (~\E k \in 1..Len(comments') : comments'[k].id = comments[i].id)
            => \E s \in Slots :
                 \/ /\ req[s].pc = "deleteComment_delete"
                    /\ ObjectId(req[s].arg) = comments[i].id
                 \/ /\ req[s].pc = "deletePost_comments"
                    /\ ObjectId(req[s].arg) = ObjectId(comments[i].postId)
     /\ (/\ req' = req /\ resp' # resp /\ resp'.cred /\ resp'.role = "admin"
         /\ \/ /\ resp'.op = "deletePost"
               /\ \E i \in PostAt(ObjectId(resp'.arg)) : posts[i].authorId # resp'.userId
            \/ /\ resp'.op = "deleteComment"
               /\ \E i \in CommentAt(ObjectId(resp'.arg)) :
                    comments[i].authorId # resp'.userId)
          => (resp'.status = 403 /\ posts' = posts /\ comments' = comments)]_vars

\* C19 witness: an admin was refused the deletion of another admin's post
\* that carries a comment
C19_Witness ==
  /\ resp.op = "deletePost" /\ resp.status = 403 /\ resp.cred /\ resp.role = "admin"
  /\ \E i \in PostAt(ObjectId(resp.arg)) :
       /\ posts[i].authorId # resp.userId
       /\ \E k \in 1..Len(comments) : ObjectId(comments[k].postId) = posts[i].id

\* C20: once deletePost has answered success, no stored comment references
\* the deleted post, and getComments for it returns the empty list.
C20_DeletePostRemovesComments ==
  [][/\ \A s \in Slots :
          (req[s].pc = "deletePost_comments" /\ req'[s].pc = "idle" /\ resp'.status = 200)
            => \A k \in 1..Len(comments') :
                 ObjectId(comments'[k].postId) # ObjectId(req[s].arg)
     /\ (/\ resp' # resp /\ resp'.op = "getComments" /\ resp'.status = 200
         /\ PostAt(ObjectId(resp'.arg.postId)) = {})
          => resp'.arg.comments = <<>>]_vars
\* some stored document of this author is younger than the cooldown
RecentWrite(docs, authorId) ==
  \E i \in 1..Len(docs) :
    docs[i].authorId = authorId /\ now - docs[i].createdAt < SPAM_PREVENTION_TIME

\* C21: a well-formed createPost by an admin whose most recent stored post is
\* younger than the cooldown is answered 429 and inserts nothing; once the
\* cooldown has elapsed since that post the request passes the gate and,
\* the author's account being stored, inserts the post and answers 201.
C21_CooldownOnPosts ==
  [][/\ (/\ req' = req /\ resp' # resp /\ resp'.op = "createPost"
         /\ resp'.cred /\ resp'.role = "admin" /\ resp'.arg.title # "")
          => /\ resp'.status = 429
             /\ RecentWrite(posts, resp'.userId)
             /\ posts' = posts
     /\ \A s \in Slots :
          (req[s].pc = "idle" /\ req'[s].pc = "createPost_author")
            => ~RecentWrite(posts, req'[s].userId)
     /\ \A s \in Slots :
          (/\ req[s].pc = "createPost_author" /\ req'[s] # req[s]
           /\ HasAccount(req[s].userId))
            => req'[s].pc = "createPost_insert"
     /\ \A s \in Slots :
          (req[s].pc = "createPost_insert" /\ req'[s] # req[s])
            => /\ resp'.status = 201
               /\ Len(posts') = Len(posts) + 1
               /\ posts'[Len(posts')].authorId = req[s].userId
               /\ posts'[Len(posts')].createdAt = now]_vars

\* C21 witness: an admin's createPost was answered 201 for a post created
\* a full cooldown after the same author's earlier post
C21_Witness ==
  /\ resp.op = "createPost" /\ resp.status = 201 /\ resp.role = "admin"
  /\ \E i, j \in 1..Len(posts) :
       /\ posts[j].id = resp.arg
       /\ posts[i].authorId = resp.userId /\ posts[j].authorId = resp.userId
       /\ posts[j].createdAt - posts[i].createdAt >= SPAM_PREVENTION_TIME

\* C22: a createPost or createComment request with role superadmin is never
\* answered 429 and never runs a cooldown lookup, however recently the same
\* actor wrote.
C22_SuperadminSkipsGate ==
  [][/\ (/\ resp' # resp /\ resp'.role = "superadmin"
         /\ resp'.op \in {"createPost", "createComment"})
          => resp'.status # 429
     /\ \A s \in Slots :
          (req'[s].pc \in {"createPost_author", "createComment_gate"})
            => req'[s].role # "superadmin"]_vars

\* C22 witness: the superadmin's createPost was answered 201 at the very
\* time of an earlier post by the superadmin
C22_Witness ==
  /\ resp.op = "createPost" /\ resp.status = 201 /\ resp.role = "superadmin"
  /\ \E i, j \in 1..Len(posts) :
       /\ i # j /\ posts[j].id = resp.arg
       /\ posts[i].authorId = resp.userId /\ posts[j].authorId = resp.userId
       /\ posts[i].createdAt = posts[j].createdAt

\* C23: createPost is answered 429 only to an actor who has a recent post
\* of their own, createComment only to an actor who has a recent comment of
\* their own; a post never blocks a comment, a comment never blocks a post
\* and one actor's writes never block another actor.
C23_CooldownPerActorAndClass ==
  [][/\ (/\ req' = req /\ resp' # resp /\ resp'.op = "createPost"
         /\ resp'.status = 429)
          => RecentWrite(posts, resp'.userId)
     /\ \A s \in Slots :
          (req[s].pc = "idle" /\ req'[s].pc = "createPost_author")
            => ~RecentWrite(posts, req'[s].userId)
     /\ \A s \in Slots :
          (req[s].pc = "createComment_gate" /\ req'[s] # req[s])
            => IF RecentWrite(comments, req[s].userId)
               THEN req'[s].pc = "idle" /\ resp'.status = 429
               ELSE req'[s].pc = "createComment_insert"]_vars

\* C23 witness: an admin's comment was accepted while the same admin's own
\* post was younger than the cooldown
C23_Witness ==
  /\ resp.op = "createComment" /\ resp.status = 201 /\ resp.role = "admin"
  /\ RecentWrite(posts, resp.userId)
  /\ \E i \in 1..Len(comments) :
       comments[i].authorId = resp.userId /\ comments[i].createdAt = now

\* C24: a createPost request that has passed the cooldown lookup is not
\* looked up again: when an overlapping request of the same admin has
\* inserted in the meantime, the author lookup and the insert still go
\* ahead and the request is answered 201, leaving two posts of that author
\* less than the cooldown apart.
C24_GateIsBestEffort ==
  [][\A s \in Slots :
       (/\ req[s].pc \in {"createPost_author", "createPost_insert"}
        /\ req'[s] # req[s]
        /\ HasAccount(req[s].userId)
        /\ RecentWrite(posts, req[s].userId))
         => IF req[s].pc = "createPost_author"
            THEN req'[s].pc = "createPost_insert" /\ posts' = posts
            ELSE /\ resp'.op = "createPost" /\ resp'.status = 201
                 /\ Len(posts') = Len(posts) + 1
                 /\ \E i \in 1..Len(posts) :
                      /\ posts'[i].authorId = posts'[Len(posts')].authorId
                      /\ posts'[Len(posts')].createdAt - posts'[i].createdAt
                           < SPAM_PREVENTION_TIME]_vars

\* C24 witness: both overlapping requests of an admin were answered 201 and
\* the two posts carry the same creation time
C24_Witness ==
  /\ resp.op = "createPost" /\ resp.status = 201 /\ resp.role = "admin"
  /\ \A s \in Slots : req[s].pc = "idle"
  /\ \E i, j \in 1..Len(posts) :
       /\ i # j
       /\ posts[i].authorId = resp.userId /\ posts[j].authorId = resp.userId
       /\ posts[j].createdAt - posts[i].createdAt < SPAM_PREVENTION_TIME
       /\ posts[i].createdAt - posts[j].createdAt < SPAM_PREVENTION_TIME

\* C25: createComment on a post with isNotice = true is answered 403 for
\* every role, superadmin included, and inserts nothing; in every state,
\* whatever the interleaving, no stored comment references a notice post.
C25_NoCommentOnNotice ==
  [][/\ (/\ req' = req /\ resp' # resp /\ resp'.op = "createComment" /\ resp'.cred
         /\ \E i \in PostAt(ObjectId(resp'.arg)) : posts[i].isNotice)
          => (resp'.status = 403 /\ comments' = comments)
     /\ \A s \in Slots :
          (req[s].pc = "idle" /\ req'[s].pc # "idle" /\ req'[s].op = "createComment")
            => \A i \in PostAt(ObjectId(req'[s].arg)) : ~posts[i].isNotice
     /\ \A k \in 1..Len(comments'), i \in 1..Len(posts') :
          posts'[i].id = ObjectId(comments'[k].postId) => ~posts'[i].isNotice]_vars

\* C25 witness: the superadmin was refused a comment on a notice
C25_Witness ==
  /\ resp.op = "createComment" /\ resp.status = 403 /\ resp.cred
  /\ resp.role = "superadmin"
  /\ \E i \in PostAt(ObjectId(resp.arg)) : posts[i].isNotice

\* C26: a stored post is a notice iff the request that created it had role
\* superadmin, and updatePost, getPostById, createComment and deleteComment
\* leave isNotice, authorId and authorRole of every stored post as they were.
C26_NoticeFixedAtCreation ==
  [][/\ \A i \in 1..Len(posts), k \in 1..Len(posts') :
          posts[i].id = posts'[k].id
            => /\ posts'[k].isNotice = posts[i].isNotice
               /\ posts'[k].authorId = posts[i].authorId
               /\ posts'[k].authorRole = posts[i].authorRole
     /\ \A k \in 1..Len(posts') :
          (\A i \in 1..Len(posts) : posts[i].id # posts'[k].id)
            => /\ resp'.op = "createPost" /\ resp'.status = 201 /\ resp'.cred
               /\ posts'[k].authorId = resp'.userId
               /\ posts'[k].authorRole = resp'.role
               /\ posts'[k].isNotice = (resp'.role = "superadmin")
     /\ \A k \in 1..Len(posts') :
          posts'[k].isNotice = (posts'[k].authorRole = "superadmin")]_vars

\* C26 witness: an admin's post that was edited and read is still no
\* notice, next to a notice of the superadmin
C26_Witness ==
  \E i, j \in 1..Len(posts) :
    /\ posts[i].authorRole = "admin" /\ ~posts[i].isNotice
    /\ posts[i].content = "edited" /\ posts[i].views > 0
    /\ posts[j].authorRole = "superadmin" /\ posts[j].isNotice

\* C27: every getPostById request for an existing post, by any actor with
\* a valid token and in any interleaving, is admitted to the increment and
\* its increment adds exactly one to the views of that post; nothing else
\* changes a view count.
C27_EveryViewCounts ==
  [][/\ (/\ req' = req /\ resp' # resp /\ resp'.op = "getPostById" /\ resp'.cred)
          => PostAt(ObjectId(resp'.arg)) = {}
     /\ \A s \in Slots :
          (req[s].pc = "getPostById_inc" /\ req'[s] # req[s])
            => \A i \in PostAt(ObjectId(req[s].arg)) :
                 posts'[i].views = posts[i].views + 1
     /\ \A i \in 1..Len(posts), k \in 1..Len(posts') :
          (posts[i].id = posts'[k].id /\ posts'[k].views # posts[i].views)
            => \E s \in Slots :
                 /\ req[s].pc = "getPostById_inc" /\ req'[s] # req[s]
                 /\ ObjectId(req[s].arg) = posts[i].id]_vars

\* C28: getPostById by an admin answers 404 both when no post has the id
\* and when the id is malformed, and changes no view count in either case.
C28_MissingOrMalformedNotFound ==
  [][(/\ req' = req /\ resp' # resp /\ resp'.op = "getPostById"
      /\ resp'.cred /\ resp'.role = "admin"
      /\ PostAt(ObjectId(resp'.arg)) = {})
       => (resp'.status = 404 /\ posts' = posts)]_vars

\* C30: with a valid token an actor with role user gets from the board what
\* an admin gets for own content: createPost is not refused for the role,
\* nor is a comment on a post that is no notice, nor updatePost or
\* deletePost of a post the actor authored.
C30_UserHasAdminBoardAccess ==
  (resp.cred /\ resp.role = "user")
    => /\ resp.op = "createPost" => resp.status # 403
       /\ (/\ resp.op = "createComment"
           /\ \E i \in PostAt(ObjectId(resp.arg)) : ~posts[i].isNotice)
            => resp.status # 403
       /\ (/\ resp.op \in {"updatePost", "deletePost"}
           /\ \E i \in PostAt(ObjectId(resp.arg)) : posts[i].authorId = resp.userId)
            => resp.status # 403

\* the stored posts that are no notices and match the search term, as a set
\* of indices
NormalHits(search) ==
  {i \in 1..Len(posts) :
     /\ ~posts[i].isNotice
     /\ \/ search = ""
        \/ regexSearchI(search, posts[i].title)
        \/ regexSearchI(search, posts[i].content)}

\* C29: getPosts on page 1 returns every notice first, whatever the search
\* term, and on later pages no notice; after them come the posts that are
\* no notices and match the search, newest first from offset
\* (page - 1) * limit; total is the number of matching posts that are no
\* notices plus, on page 1, the number of notices returned.
C29_NoticesPinnedOnPageOne ==
  [][\A s \in Slots :
       (req[s].pc = "getPosts_find" /\ req'[s].pc = "idle")
         => LET a == resp'.arg
                shown == a.posts
                hits == NormalHits(a.search)
                noticeIds == {posts[i].id : i \in {k \in 1..Len(posts) : posts[k].isNotice}}
                n == IF a.page = 1 THEN Cardinality(noticeIds) ELSE 0
                offset == (a.page - 1) * a.limit
                left == IF Cardinality(hits) > offset THEN Cardinality(hits) - offset ELSE 0
            IN /\ resp'.status = 200
               /\ Len(shown) >= n
               /\ {shown[k].id : k \in 1..n} = (IF a.page = 1 THEN noticeIds ELSE {})
               /\ \A k \in (n + 1)..Len(shown) : \E i \in hits : posts[i] = shown[k]
               /\ \A k, l \in (n + 1)..Len(shown) :
                    k < l => /\ shown[k].id # shown[l].id
                             /\ shown[k].createdAt >= shown[l].createdAt
               /\ Len(shown) - n = (IF a.limit < left THEN a.limit ELSE left)
               /\ \A k \in (n + 1)..Len(shown) :
                    /\ Cardinality({i \in hits : posts[i].createdAt > shown[k].createdAt})
                         <= offset + (k - n) - 1
                    /\ Cardinality({i \in hits : posts[i].createdAt >= shown[k].createdAt})
                         >= offset + (k - n)
               /\ a.total = Cardinality(hits) + n]_vars

\* C31: deleteAccount goes on to delete account X only when the token
\* carries actor id X and the supplied password matches the hash stored for
\* X; its delete removes the account of that id and nothing else; every
\* other deleteAccount request leaves the account store unchanged, and
\* nothing else removes an account.
C31_DeleteOwnAccountOnly ==
  [][/\ \A s \in Slots :
          (req[s].pc = "idle" /\ req'[s].pc = "deleteAccount_delete")
            => /\ req'[s].cred
               /\ req'[s].userId = req'[s].arg
               /\ HasAccount(req'[s].arg)
               /\ AccountOf(req'[s].arg).password = Hash(req'[s].password)
     /\ (req' = req /\ resp' # resp /\ resp'.op = "deleteAccount") => users' = users
     /\ Len(users') < Len(users)
          => \E s \in Slots :
               /\ req[s].pc = "deleteAccount_delete" /\ req'[s].pc = "idle"
               /\ Len(users') = Len(users) - 1
               /\ \E i \in 1..Len(users) :
                    /\ users[i].userId = req[s].userId
                    /\ users' = [k \in 1..(Len(users) - 1) |->
                                   IF k < i THEN users[k] ELSE users[k + 1]]]_vars

\* C31 witness: an admin's deleteAccount for their own id was answered 200
\* and the account is gone
C31_Witness ==
  /\ resp.op = "deleteAccount" /\ resp.status = 200 /\ resp.cred
  /\ resp.role = "admin" /\ resp.arg = resp.userId
  /\ ~HasAccount(resp.userId)

RosterOps == {"verifyTeacher", "saveRegisteredTeachers", "getRegisteredTeachers"}

\* C32: saveRegisteredTeachers changes only the registeredTeachers field of
\* the account whose userId is the token's actor id, and only for role
\* admin; getRegisteredTeachers returns the roster of that account; a caller
\* whose role is not admin gets 403 from verifyTeacher (given a teacherId),
\* saveRegisteredTeachers and getRegisteredTeachers, and changes nothing.
C32_RosterScopedToAdmin ==
  [][/\ (/\ resp' # resp /\ resp'.op \in RosterOps /\ resp'.cred
         /\ resp'.role # "admin"
         /\ resp'.op = "verifyTeacher" => resp'.arg # "")
          => (resp'.status = 403 /\ users' = users)
     /\ (resp' # resp /\ resp'.op \in RosterOps)
          => /\ Len(users') = Len(users)
             /\ \A i \in 1..Len(users) :
                  \/ users'[i] = users[i]
                  \/ /\ resp'.op = "saveRegisteredTeachers" /\ resp'.status = 200
                     /\ resp'.role = "admin"
                     /\ users[i].userId = resp'.userId
                     /\ users'[i] = [users[i] EXCEPT !.registeredTeachers = resp'.arg]
     /\ \A i \in 1..Len(users) :
          (/\ i <= Len(users')
           /\ users'[i].userId = users[i].userId
           /\ users'[i].registeredTeachers # users[i].registeredTeachers)
            => /\ resp'.op = "saveRegisteredTeachers" /\ resp'.status = 200
               /\ resp'.role = "admin" /\ resp'.userId = users[i].userId
     /\ (/\ resp' # resp /\ resp'.op = "getRegisteredTeachers"
         /\ resp'.status = 200)
          => /\ resp'.role = "admin" /\ HasAccount(resp'.userId)
             /\ resp'.arg = AccountOf(resp'.userId).registeredTeachers]_vars

\* C32 witness: an admin was shown their own roster while another admin's
\* stored roster differs from it
C32_Witness ==
  /\ resp.op = "getRegisteredTeachers" /\ resp.status = 200
  /\ \E i \in 1..Len(users) :
       /\ users[i].userId \notin {resp.userId, ADMIN_USER_ID}
       /\ users[i].role = "admin"
       /\ users[i].registeredTeachers # resp.arg

\* C33: resetPassword with a matching email stores the hash of the generated
\* temporary password before the email is sent; when sending fails the
\* answer is 500 and the stored hash stays, and a login with the password
\* the account had before (in SpecReset every login sends that password) is
\* no longer accepted.
C33_ResetNotRolledBack ==
  [][/\ \A s \in Slots :
          (req[s].pc = "resetPassword_update" /\ req'[s] # req[s])
            => /\ req'[s].pc = "resetPassword_mail" /\ resp' = resp
               /\ req[s].hashedPassword \in {Hash(t) : t \in TempPasswords}
               /\ HasAccount(req[s].arg)
               /\ users'[findUser(users', req[s].arg)].password = req[s].hashedPassword
     /\ \A s \in Slots :
          (req[s].pc = "resetPassword_mail" /\ req'[s] # req[s])
            => /\ resp'.op = "resetPassword" /\ resp'.status \in {200, 500}
               /\ users' = users
               /\ AccountOf(req[s].arg).password = req[s].hashedPassword
     /\ ~(/\ resp.op = "resetPassword" /\ resp.status = 500
          /\ resp' # resp /\ resp'.op = "login" /\ resp'.arg = resp.arg
          /\ resp'.status = 200)]_vars

\* C34: for a changePassword request with all fields, a long enough
\* newPassword and a stored account, the answer is 401 when currentPassword
\* does not match the stored hash and 400 when it matches and newPassword is
\* the same password; every 401 and 400 leaves the accounts as they were;
\* the request goes on to updateOne only when currentPassword matches the
\* stored hash, and that updateOne changes the hash of that account alone.
C34_ChangeNeedsCurrentPassword ==
  [][/\ (/\ req' = req /\ resp' # resp /\ resp'.op = "changePassword"
         /\ resp'.arg.userId # "" /\ resp'.arg.currentPassword # ""
         /\ Len(resp'.arg.newPassword) >= MinPasswordLen
         /\ HasAccount(resp'.arg.userId))
          => LET stored == AccountOf(resp'.arg.userId).password
             IN /\ ~Compare(resp'.arg.currentPassword, stored) => resp'.status = 401
                /\ (/\ Compare(resp'.arg.currentPassword, stored)
                    /\ resp'.arg.newPassword = resp'.arg.currentPassword)
                     => resp'.status = 400
     /\ (/\ resp' # resp /\ resp'.op = "changePassword"
         /\ resp'.status \in {400, 401})
          => users' = users
     /\ \A s \in Slots :
          (req[s].pc = "idle" /\ req'[s].pc = "changePassword_update")
            => /\ HasAccount(req'[s].arg)
               /\ Compare(req'[s].currentPassword, AccountOf(req'[s].arg).password)
     /\ \A s \in Slots :
          (req[s].pc = "changePassword_update" /\ req'[s] # req[s])
            => /\ resp'.status = 200
               /\ users' = setPassword(users, req[s].arg, req[s].hashedPassword)
     /\ (Len(users') = Len(users) /\ users' # users)
          => \E s \in Slots :
               /\ req[s].pc = "changePassword_update" /\ req'[s] # req[s]]_vars

\* C34 witness: a changePassword whose currentPassword is wrong was answered
\* 401 although its newPassword is the stored password
C34_Witness ==
  /\ resp.op = "changePassword" /\ resp.status = 401
  /\ HasAccount(resp.arg.userId)
  /\ ~Compare(resp.arg.currentPassword, AccountOf(resp.arg.userId).password)
  /\ Compare(resp.arg.newPassword, AccountOf(resp.arg.userId).password)

C36_CooldownSurvivesDelete ==
  [][\A s \in Slots :
       (/\ req[s].pc = "createPost_insert" /\ req'[s] # req[s]
        /\ resp'.status = 201)
         => nextId = 1]_vars

\* C37: whenever no request is in progress, every stored comment references
\* a stored post, also after a createComment and a deletePost on the same
\* post have overlapped.
C37_NoCommentOnDeletedPost ==
  (\A s \in Slots : req[s].pc = "idle")
    => \A k \in 1..Len(comments) :
         \E i \in 1..Len(posts) : posts[i].id = ObjectId(comments[k].postId)

\* C38: the write of an updateSchedule request that left teacherUserIds out
\* does not change the stored teacherUserIds of the sheet, so the value an
\* overlapping request supplied is the one stored after both have completed.
C38_NoLostTeacherUserIds ==
  [][\A s \in Slots :
       (/\ req[s].pc = "updateSchedule_update" /\ req'[s] # req[s]
        /\ ~req[s].settings.teacherUserIds.given)
         => /\ Len(schedules') = Len(schedules)
            /\ \A i \in 1..Len(schedules) :
                 schedules'[i].teacherUserIds = schedules[i].teacherUserIds]_vars

\* the account registered later under the userId kim is stored and was the
\* last to be answered, by a successful login
LaterAccountLoggedIn ==
  /\ resp.op = "login" /\ resp.status = 200 /\ resp.arg = "kim"
  /\ HasAccount("kim")
  /\ AccountOf("kim").password = Hash("rootpass1")

\* C39: once the account registered after the deletion of admin kim has
\* logged in, its next request lists none of the sheets the deleted account
\* created and neither updateSchedule nor deleteSchedule finds one of them.
C39_SheetsDieWithAccount ==
  [][LaterAccountLoggedIn
       => /\ (resp' # resp /\ resp'.op = "getAllSchedules" /\ resp'.status = 200)
               => resp'.arg = <<>>
          /\ \A s \in Slots :
               req'[s].pc \notin {"updateSchedule_update", "deleteSchedule_delete"}]_vars
====
